---- MODULE Spec2Model ----
(***************************************************************************)
(* Streaming response-drafting engine of the voice-agent bridge.          *)
(*                                                                         *)
(* The module models DemoLlmClient (both variants: the plain one of       *)
(* src/src/llm_openai.ts and the tool-calling one of src/unnamed/part_000) *)
(* together with the WebSocket handler of src/unnamed/part_001 that        *)
(* drives it.                                                              *)
(*                                                                         *)
(* JavaScript values are tagged records [t |-> type, v |-> payload].       *)
(* A JavaScript string is a sequence of tokens, so that concatenation      *)
(* (+=) is \o and parsing / rendering are computed, not assumed.           *)
(***************************************************************************)
EXTENDS Integers, Sequences, FiniteSets, TLC

VARIABLES
  variant,                 \* which DemoLlmClient the server imports
  connected,               \* the /llm-websocket/:call_id connection is open
  lastPrintedUserMessage,  \* DemoLlmClient.lastPrintedUserMessage
  cycles,                  \* one record per DraftResponse invocation
  frames,                  \* what ws.send put on the connection, in order
  frameOrigin,             \* history: which cycle / phase sent frames[i]
  inbound,                 \* history: the messages ws.on("message") handled
  probe,                   \* a pure function under examination: input, output
  sessions                 \* several connections at once: clients and sockets

vars == <<variant, connected, lastPrintedUserMessage, cycles, frames, frameOrigin,
          inbound, probe, sessions>>

----------------------------------------------------------------------------
(* Bounds of the model *)

MaxCycles == 1         \* DraftResponse invocations per connection
MaxEvents == 3         \* events one provider stream yields
MaxResponseId == 2     \* response_id of a request ranges over 1..MaxResponseId
MaxTurns == 3          \* turns of a transcript handed to PreparePrompt alone
MaxDeltas == 3         \* events merged by messageReducer alone
MaxInbound == 2        \* messages one connection delivers to the server
MaxServerEvents == 2   \* events one provider stream yields under the server

----------------------------------------------------------------------------
(* JavaScript values *)

Undefined == [t |-> "undefined"]
Null == [t |-> "null"]
Str(s) == [t |-> "string", v |-> s]
Obj(f) == [t |-> "object", v |-> f]
Arr(a) == [t |-> "array", v |-> a]
Num(n) == [t |-> "number", v |-> n]
Thrown(e) == [t |-> "throw", v |-> e]

EmptyObj == Obj([k \in {} |-> Undefined])

IsThrown(x) == x.t = "throw"

\* property access obj[key] on an object value
Get(obj, key) ==
  IF obj.t = "object" /\ key \in DOMAIN obj.v THEN obj.v[key] ELSE Undefined

\* JavaScript truthiness
Truthy(x) ==
  CASE x.t \in {"undefined", "null"} -> FALSE
    [] x.t = "string" -> x.v # <<>>
    [] OTHER -> TRUE

RECURSIVE Concat(_)
Concat(ss) == IF ss = <<>> THEN <<>> ELSE Head(ss) \o Concat(Tail(ss))

----------------------------------------------------------------------------
(* The toy dataset and the tool handlers *)

db == <<
  [id |-> <<"a1">>, name |-> <<"To", "Kill", "a", "Mockingbird">>,
   genre |-> <<"historical">>, description |-> <<"description-a1">>],
  [id |-> <<"a2">>, name |-> <<"All", "the", "Light", "We", "Cannot", "See">>,
   genre |-> <<"historical">>, description |-> <<"description-a2">>],
  [id |-> <<"a3">>, name |-> <<"Where", "the", "Crawdads", "Sing">>,
   genre |-> <<"historical">>, description |-> <<"description-a3">>] >>

\* (item) => ({ name: item.name, id: item.id })
NameAndId(item) == Obj([name |-> Str(item.name), id |-> Str(item.id)])

BookObj(item) ==
  Obj([id |-> Str(item.id), name |-> Str(item.name),
       genre |-> Str(item.genre), description |-> Str(item.description)])

\* hits.map(NameAndId)
MapNameAndId(hits) == [i \in 1..Len(hits) |-> NameAndId(hits[i])]

\* String.prototype.includes on token sequences; a non-string argument is
\* converted to a string first ("undefined" matches no title)
Includes(hay, needle) ==
  \E i \in 0..(Len(hay) - Len(needle)) :
    \A j \in 1..Len(needle) : hay[i + j] = needle[j]

\* fault: the genre filter is missing
listIgnoresGenre(genre) == Arr(MapNameAndId(db))

list(genre) ==
  LET keep(item) == genre.t = "string" /\ item.genre = genre.v
  IN Arr(MapNameAndId(SelectSeq(db, keep)))

search(name) ==
  LET keep(item) == name.t = "string" /\ Includes(item.name, name.v)
  IN Arr(MapNameAndId(SelectSeq(db, keep)))

\* db.find(...)!  : the first match, or undefined
get(id) ==
  LET hits == {i \in 1..Len(db) : id.t = "string" /\ db[i].id = id.v}
  IN IF hits = {} THEN Undefined
     ELSE BookObj(db[CHOOSE i \in hits : \A j \in hits : i <= j])

\* JSON.parse on the token alphabet of the model: { } [ ] : , are
\* punctuation, null is the literal null, a digit is a number literal and
\* every other token is a string literal (a key, when before a colon).
Punctuation == {"{", "}", "[", "]", ":", ",", "null"}

Digits == 0..9

IsNumberToken(tok) == \E n \in Digits : tok = ToString(n)

NumberOf(tok) == Num(CHOOSE n \in Digits : tok = ToString(n))

IsStringToken(tok) == tok \notin Punctuation /\ ~IsNumberToken(tok)

\* a parse step: the value read and the position after it, or a failure
Unparsed == [ok |-> FALSE]
Parsed(v, next) == [ok |-> TRUE, v |-> v, next |-> next]

At(s, i, tok) == i <= Len(s) /\ s[i] = tok

RECURSIVE ParseValue(_, _)
RECURSIVE ParseElements(_, _, _)
RECURSIVE ParseMembers(_, _, _)

ParseValue(s, i) ==
  IF i > Len(s) THEN Unparsed
  ELSE CASE s[i] = "null" -> Parsed(Null, i + 1)
         [] s[i] = "[" -> IF At(s, i + 1, "]") THEN Parsed(Arr(<<>>), i + 2)
                          ELSE ParseElements(s, i + 1, <<>>)
         [] s[i] = "{" -> IF At(s, i + 1, "}") THEN Parsed(EmptyObj, i + 2)
                          ELSE ParseMembers(s, i + 1, EmptyObj.v)
         [] IsNumberToken(s[i]) -> Parsed(NumberOf(s[i]), i + 1)
         [] IsStringToken(s[i]) -> Parsed(Str(<<s[i]>>), i + 1)
         [] OTHER -> Unparsed

\* the elements of an array after "[" or ","
ParseElements(s, i, acc) ==
  LET e == ParseValue(s, i)
  IN IF ~e.ok THEN Unparsed
     ELSE IF At(s, e.next, ",") THEN ParseElements(s, e.next + 1, Append(acc, e.v))
     ELSE IF At(s, e.next, "]") THEN Parsed(Arr(Append(acc, e.v)), e.next + 1)
     ELSE Unparsed

\* the members of an object after "{" or ","
ParseMembers(s, i, acc) ==
  IF ~(i <= Len(s) /\ IsStringToken(s[i]) /\ At(s, i + 1, ":")) THEN Unparsed
  ELSE LET e == ParseValue(s, i + 2)
           put == [k \in DOMAIN acc \cup {s[i]} |-> IF k = s[i] THEN e.v ELSE acc[k]]
       IN IF ~e.ok THEN Unparsed
          ELSE IF At(s, e.next, ",") THEN ParseMembers(s, e.next + 1, put)
          ELSE IF At(s, e.next, "}") THEN Parsed(Obj(put), e.next + 1)
          ELSE Unparsed

\* JSON.parse(text): the argument is converted to a string first, so null
\* parses to null and undefined is a syntax error
JSONparse(text) ==
  CASE text.t = "null" -> Null
    [] text.t = "string" ->
         LET r == ParseValue(text.v, 1)
         IN IF r.ok /\ r.next = Len(text.v) + 1 THEN r.v ELSE Thrown("SyntaxError")
    [] OTHER -> Thrown("SyntaxError")

\* args["key"] : a TypeError when args is null
Index(args, key) ==
  IF args.t \in {"null", "undefined"} THEN Thrown("TypeError") ELSE Get(args, key)

callFunction(function_call) ==
  LET args == JSONparse(Get(function_call, "arguments"))
      name == Get(function_call, "name")
      arg(key) == Index(args, key)
  IN IF IsThrown(args) THEN args
     ELSE CASE name = Str(<<"list">>) ->
                 IF IsThrown(arg("genre")) THEN arg("genre") ELSE list(arg("genre"))
            [] name = Str(<<"search">>) ->
                 IF IsThrown(arg("name")) THEN arg("name") ELSE search(arg("name"))
            [] name = Str(<<"get">>) ->
                 IF IsThrown(arg("id")) THEN arg("id") ELSE get(arg("id"))
            [] OTHER -> Thrown("No function found")

\* JSON.stringify of a handler result, as tokens
RECURSIVE JSONstringify(_)
JSONstringify(x) ==
  CASE x.t = "string" -> <<"\"">> \o x.v \o <<"\"">>
    [] x.t = "array" ->
         <<"[">> \o Concat([i \in 1..Len(x.v) |->
                     (IF i > 1 THEN <<",">> ELSE <<>>) \o JSONstringify(x.v[i])])
         \o <<"]">>
    [] x.t = "object" /\ DOMAIN x.v = {"name", "id"} ->
         <<"{", "name:">> \o JSONstringify(x.v.name)
         \o <<",", "id:">> \o JSONstringify(x.v.id) \o <<"}">>
    [] x.t = "object" ->
         <<"{", "id:">> \o JSONstringify(x.v.id)
         \o <<",", "name:">> \o JSONstringify(x.v.name)
         \o <<",", "genre:">> \o JSONstringify(x.v.genre)
         \o <<",", "description:">> \o JSONstringify(x.v.description) \o <<"}">>
    [] OTHER -> <<"undefined">>

ResultPrefix == <<"The function call result is: ">>

\* "The function call result is: " + JSON.stringify(result)
ResultContent(result) == ResultPrefix \o JSONstringify(result)

----------------------------------------------------------------------------
(* The stream accumulator *)

\* Object.entries(delta): the own enumerable properties.  A string or an
\* array has its indices as keys; null and undefined make it throw.
IndexKeys(n) == {ToString(i) : i \in 0..(n - 1)}

Entries(delta) ==
  CASE delta.t = "object" -> delta.v
    [] delta.t = "string" ->
         [k \in IndexKeys(Len(delta.v)) |->
            Str(<<delta.v[(CHOOSE i \in 1..Len(delta.v) : ToString(i - 1) = k)]>>)]
    [] delta.t = "array" ->
         [k \in IndexKeys(Len(delta.v)) |->
            delta.v[(CHOOSE i \in 1..Len(delta.v) : ToString(i - 1) = k)]]
    [] OTHER -> [k \in {} |-> Undefined]

\* fault: a string fragment replaces the accumulated string
reduceOverwrites(acc, delta) ==
  IF delta.t \in {"undefined", "null"} THEN Thrown("TypeError")
  ELSE LET a == acc.v
           e == Entries(delta)
       IN Obj([key \in DOMAIN a \cup DOMAIN e |->
                 IF key \in DOMAIN e /\ (key \notin DOMAIN a \/ e[key].t = "string")
                   THEN e[key] ELSE a[key]])

\* fault: a nested object replaces the accumulated one, it is not merged
reduceShallow(acc, delta) ==
  IF delta.t \in {"undefined", "null"} THEN Thrown("TypeError")
  ELSE LET a == acc.v
           e == Entries(delta)
           merged(key) ==
             IF key \notin DOMAIN a \/ a[key].t \in {"undefined", "null"} THEN e[key]
             ELSE IF a[key].t = "string" /\ e[key].t = "string"
                    THEN Str(a[key].v \o e[key].v)
             ELSE IF a[key].t = "object" THEN e[key]
             ELSE a[key]
       IN Obj([key \in DOMAIN a \cup DOMAIN e |->
                 IF key \in DOMAIN e THEN merged(key) ELSE a[key]])

RECURSIVE reduce(_, _)
reduce(acc, delta) ==
  IF delta.t \in {"undefined", "null"} THEN Thrown("TypeError")
  ELSE
    LET a == acc.v
        e == Entries(delta)
        merged(key) ==
          IF key \notin DOMAIN a \/ a[key].t \in {"undefined", "null"} THEN e[key]
          ELSE IF a[key].t = "string" /\ e[key].t = "string"
                 THEN Str(a[key].v \o e[key].v)
          ELSE IF a[key].t = "object" THEN reduce(a[key], e[key])
          ELSE a[key]
        r == [key \in DOMAIN a \cup DOMAIN e |->
                IF key \in DOMAIN e THEN merged(key) ELSE a[key]]
    IN IF \E key \in DOMAIN e : IsThrown(r[key]) THEN Thrown("TypeError")
       ELSE Obj(r)

\* fault: a delta without content cannot be merged
messageReducerNeedsContent(previous, item) ==
  IF Len(item.choices) = 0 THEN Thrown("TypeError")
  ELSE IF Get(item.choices[1].delta, "content").t = "undefined" THEN Thrown("TypeError")
  ELSE reduce(previous, item.choices[1].delta)

\* reduce(previous, item.choices[0]!.delta)
messageReducer(previous, item) ==
  IF Len(item.choices) = 0 THEN Thrown("TypeError")
  ELSE reduce(previous, item.choices[1].delta)

----------------------------------------------------------------------------
(* The conversation formatter *)

beginSentence(v) ==
  IF v = "tools"
    THEN <<"Hey there, I'm your personal AI librarian, what book can I find for you?">>
    ELSE <<"Hey there, I'm your personal AI therapist, how can I help you?">>

agentPrompt(v) == IF v = "tools" THEN <<"librarian-prompt">> ELSE <<"therapist-prompt">>

SystemPrompt(v) == <<"##Objective ... ## Role\n">> \o agentPrompt(v)

ReminderText == <<"(Now the user has not responded in a while, you would say:)">>

ConversationToChatRequestMessages(conversation) ==
  [i \in 1..Len(conversation) |->
     [role |-> IF conversation[i].role = "agent" THEN "assistant" ELSE "user",
      content |-> conversation[i].content]]

\* fault: the reminder is pushed before the transcript
PreparePromptReminderFirst(v, request) ==
  <<[role |-> "system", content |-> SystemPrompt(v)]>>
  \o (IF request.interaction_type = "reminder_required"
        THEN <<[role |-> "user", content |-> ReminderText]>>
        ELSE <<>>)
  \o ConversationToChatRequestMessages(request.transcript)

PreparePrompt(v, request) ==
  <<[role |-> "system", content |-> SystemPrompt(v)]>>
  \o ConversationToChatRequestMessages(request.transcript)
  \o (IF request.interaction_type = "reminder_required"
        THEN <<[role |-> "user", content |-> ReminderText]>>
        ELSE <<>>)

----------------------------------------------------------------------------
(* Inputs: requests of the remote peer and events of the provider stream *)

Turn(role, content) == [role |-> role, content |-> content]

Transcripts ==
  { <<>>,
    <<Turn("user", <<"find me a historical book">>)>>,
    <<Turn("user", <<"find me a historical book">>),
      Turn("agent", <<"sure">>),
      Turn("user", <<"thanks">>)>> }

InteractionTypes == {"normal", "reminder_required", "update_only"}

Requests ==
  [response_id : 1..MaxResponseId,
   transcript : Transcripts,
   interaction_type : InteractionTypes]

\* a ChatCompletionChunk with one choice
Chunk(delta, finish_reason) ==
  [choices |-> <<[delta |-> Obj(delta), finish_reason |-> finish_reason]>>]

NoDelta == [k \in {} |-> Undefined]

ToolNames == {"list", "get", "nope"}

ArgumentFragments ==
  { <<"{", "genre", ":", "historical", "}">>,
    <<"{", "genre", ":", "fantasy", "}">>,
    <<"{", "id", ":", "zz", "}">>,
    <<"{", "genre">> }

StreamEvents ==
  { [choices |-> <<>>],
    Chunk(NoDelta, "stop"),
    Chunk([role |-> Str(<<"assistant">>), content |-> Str(<<>>)], "null"),
    Chunk([content |-> Str(<<"Hi">>)], "null"),
    Chunk([content |-> Str(<<" there">>)], "null"),
    Chunk(NoDelta, "function_call"),
    Chunk([content |-> Str(<<"Hi">>)], "function_call") }
  \cup { Chunk([content |-> Null,
                function_call |-> Obj([name |-> Str(<<n>>), arguments |-> Str(<<>>)])],
               "null") : n \in ToolNames }
  \cup { Chunk([function_call |-> Obj([arguments |-> Str(a)])], "null") :
           a \in ArgumentFragments }

----------------------------------------------------------------------------
(* Frames *)

\* fault: content_complete hard-wired to true
FrameAlwaysComplete(response_id, content, content_complete) ==
  [response_id |-> response_id, content |-> content,
   content_complete |-> TRUE, end_call |-> FALSE]

\* fault: the response_id of the request is not copied into the frame
FrameWithoutResponseId(response_id, content, content_complete) ==
  [response_id |-> 0, content |-> content,
   content_complete |-> content_complete, end_call |-> FALSE]

Frame(response_id, content, content_complete) ==
  [response_id |-> response_id, content |-> content,
   content_complete |-> content_complete, end_call |-> FALSE]

\* history: the invocation that sent a frame, the place in its code (begin:
\* BeginMessage, partial: the loop, result / terminal: the finally block) and
\* the number of events it had consumed
Origin(c, phase, at) == [cycle |-> c, phase |-> phase, at |-> at]

\* ws.send of the frames in `out`, a sequence of <<frame, phase>> pairs
Sent(c, at, out) ==
  /\ frames' = frames \o [i \in 1..Len(out) |-> out[i][1]]
  /\ frameOrigin' = frameOrigin \o [i \in 1..Len(out) |-> Origin(c, out[i][2], at)]

----------------------------------------------------------------------------
(* DemoLlmClient.DraftResponse *)

LastUserMessage(transcript) ==
  LET users == SelectSeq(transcript, LAMBDA u : u.role = "user")
  IN IF users = <<>> THEN Undefined ELSE Str(users[Len(users)].content)

\* fault: the comparison with the last printed message is missing
UserSaidWhenever(last, held) == last.t # "undefined"

\* if (lastUserMessage && lastUserMessage.content !== this.lastPrintedUserMessage):
\* lastUserMessage is the utterance object, truthy whatever its content
UserSaid(last, held) == last.t # "undefined" /\ last # held

\* fault: the update_only short-circuit is missing
UpdateOnlyNever(request) == FALSE

\* if (request.interaction_type === "update_only") return;
UpdateOnly(request) == request.interaction_type = "update_only"

\* fault: an empty content string is not skipped
EmitsPartialEvenIfEmpty(event) ==
  /\ Len(event.choices) >= 1
  /\ Truthy(event.choices[1].delta)
  /\ Get(event.choices[1].delta, "content").t = "string"

\* event.choices.length >= 1 and not (!delta || !delta.content): the content
\* fragment of the event is sent as a partial frame
EmitsPartial(event) ==
  /\ Len(event.choices) >= 1
  /\ Truthy(event.choices[1].delta)
  /\ Truthy(Get(event.choices[1].delta, "content"))

\* fault: the terminal frame carries the accumulated message
FinallyEchoesMessage(v, cyc) ==
  IF v = "tools" /\ Truthy(cyc.funcCall)
    THEN LET result == callFunction(cyc.funcCall)
         IN IF IsThrown(result)
              THEN [pc |-> "rejected", thrown |-> result, out |-> <<>>]
              ELSE [pc |-> "returned", thrown |-> Null,
                    out |-> << <<Frame(cyc.request.response_id,
                                       ResultContent(result), FALSE), "result">> >>]
    ELSE [pc |-> "returned", thrown |-> Null,
          out |-> << <<Frame(cyc.request.response_id, cyc.completeMessage, TRUE),
                       "terminal">> >>]

\* fault: the tool branch falls through to the terminal frame
FinallyFallsThrough(v, cyc) ==
  LET terminal == <<Frame(cyc.request.response_id, <<>>, TRUE), "terminal">>
  IN IF v = "tools" /\ Truthy(cyc.funcCall)
       THEN LET result == callFunction(cyc.funcCall)
            IN IF IsThrown(result)
                 THEN [pc |-> "rejected", thrown |-> result, out |-> <<>>]
                 ELSE [pc |-> "returned", thrown |-> Null,
                       out |-> << <<Frame(cyc.request.response_id,
                                          ResultContent(result), FALSE), "result">>,
                                  terminal >>]
       ELSE [pc |-> "returned", thrown |-> Null, out |-> <<terminal>>]

\* fault: no terminal frame when nothing was drafted
FinallySkipsEmptyTerminal(v, cyc) ==
  IF v = "tools" /\ Truthy(cyc.funcCall)
    THEN LET result == callFunction(cyc.funcCall)
         IN IF IsThrown(result)
              THEN [pc |-> "rejected", thrown |-> result, out |-> <<>>]
              ELSE [pc |-> "returned", thrown |-> Null,
                    out |-> << <<Frame(cyc.request.response_id,
                                       ResultContent(result), FALSE), "result">> >>]
    ELSE [pc |-> "returned", thrown |-> Null,
          out |-> IF cyc.completeMessage = <<>> THEN <<>>
                  ELSE << <<Frame(cyc.request.response_id, <<>>, TRUE), "terminal">> >>]

\* fault: the call executed is read from the message at the end of the
\* stream, not from what was captured at the signal
FinallyUsesLiveMessage(v, cyc) ==
  IF v = "tools" /\ Truthy(cyc.funcCall)
    THEN LET result == callFunction(Get(cyc.message, "function_call"))
         IN IF IsThrown(result)
              THEN [pc |-> "rejected", thrown |-> result, out |-> <<>>]
              ELSE [pc |-> "returned", thrown |-> Null,
                    out |-> << <<Frame(cyc.request.response_id,
                                       ResultContent(result), FALSE), "result">> >>]
    ELSE [pc |-> "returned", thrown |-> Null,
          out |-> << <<Frame(cyc.request.response_id, <<>>, TRUE), "terminal">> >>]

\* the finally block: what it sends and how the invocation ends
Finally(v, cyc) ==
  IF v = "tools" /\ Truthy(cyc.funcCall)
    THEN LET result == callFunction(cyc.funcCall)
         IN IF IsThrown(result)
              THEN [pc |-> "rejected", thrown |-> result, out |-> <<>>]
              ELSE [pc |-> "returned", thrown |-> Null,
                    out |-> << <<Frame(cyc.request.response_id,
                                       ResultContent(result), FALSE), "result">> >>]
    ELSE [pc |-> "returned", thrown |-> Null,
          out |-> << <<Frame(cyc.request.response_id, <<>>, TRUE), "terminal">> >>]

\* fault: the cleanup is written after the try statement, not in a finally
\* block, and the catch block rethrows
FinishWithoutFinally(c, cyc, err) ==
  LET fin == IF IsThrown(err) THEN [pc |-> "rejected", thrown |-> err, out |-> <<>>]
             ELSE Finally(variant, cyc)
  IN /\ cycles' = [cycles EXCEPT ![c] =
                     [cyc EXCEPT !.pc = fin.pc,
                                 !.thrown = fin.thrown,
                                 !.failure = err,
                                 !.logged = IF IsThrown(err) THEN Append(@, err) ELSE @]]
     /\ Sent(c, Len(cyc.consumed), fin.out)

\* fault: after an error the finally block ignores the captured tool call
FinishDropsToolCallOnError(c, cyc, err) ==
  LET fin == Finally(variant, IF IsThrown(err) THEN [cyc EXCEPT !.funcCall = Null]
                              ELSE cyc)
  IN /\ cycles' = [cycles EXCEPT ![c] =
                     [cyc EXCEPT !.pc = fin.pc,
                                 !.thrown = fin.thrown,
                                 !.failure = err,
                                 !.logged = IF IsThrown(err) THEN Append(@, err) ELSE @]]
     /\ Sent(c, Len(cyc.consumed), fin.out)

\* the try block is over for cycle c, normally (err = Null) or by the error
\* err, which the catch block logs; then the finally block runs
Finish(c, cyc, err) ==
  LET fin == Finally(variant, cyc)
  IN /\ cycles' = [cycles EXCEPT ![c] =
                     [cyc EXCEPT !.pc = fin.pc,
                                 !.thrown = fin.thrown,
                                 !.failure = err,
                                 !.logged = IF IsThrown(err) THEN Append(@, err) ELSE @]]
     /\ Sent(c, Len(cyc.consumed), fin.out)

\* no function is under examination
NoProbe == [fn |-> "none"]

\* no connection is examined next to another
NoSessions == [clients |-> <<>>, conns |-> <<>>, calls |-> <<>>]

\* the server is listening, nothing is connected
Listening ==
  /\ variant \in {"plain", "tools"}
  /\ connected = FALSE
  /\ lastPrintedUserMessage = Null
  /\ cycles = <<>>
  /\ frames = <<>>
  /\ frameOrigin = <<>>
  /\ inbound = <<>>
  /\ sessions = NoSessions

Init == Listening /\ probe = NoProbe

\* fault: the connection handler does not call BeginMessage
ConnectWithoutGreeting ==
  /\ ~connected
  /\ connected' = TRUE
  /\ lastPrintedUserMessage' = Null
  /\ UNCHANGED <<variant, cycles, frames, frameOrigin>>

\* app.ws("/llm-websocket/:call_id"): new DemoLlmClient(), BeginMessage(ws)
Connect ==
  /\ ~connected
  /\ connected' = TRUE
  /\ lastPrintedUserMessage' = Null
  /\ frames' = Append(frames, Frame(0, beginSentence(variant), TRUE))
  /\ frameOrigin' = Append(frameOrigin, Origin(0, "begin", 0))
  /\ UNCHANGED <<variant, cycles>>

\* ws.on("message") with a text message that parses to `request`:
\* DraftResponse runs up to its first await
Message(request) ==
  LET last == LastUserMessage(request.transcript)
      says == UserSaid(last, lastPrintedUserMessage)
      skip == UpdateOnly(request)
  IN /\ connected
     /\ lastPrintedUserMessage' = IF says THEN last ELSE lastPrintedUserMessage
     /\ cycles' = Append(cycles,
          [request |-> request,
           pc |-> IF skip THEN "returned" ELSE "create",
           userSaid |-> says,
           requestMessages |-> IF skip THEN <<>> ELSE PreparePrompt(variant, request),
           message |-> EmptyObj,
           funcCall |-> Null,
           executeFunction |-> FALSE,
           completeMessage |-> <<>>,
           consumed |-> <<>>,
           failure |-> Null,
           logged |-> <<>>,
           thrown |-> Null])
     /\ UNCHANGED <<variant, connected, frames, frameOrigin>>

\* await this.client.chat.completions.create(...) resolves with the stream
CreateResolves(c) ==
  /\ cycles[c].pc = "create"
  /\ cycles' = [cycles EXCEPT ![c].pc = "stream"]
  /\ UNCHANGED <<variant, connected, lastPrintedUserMessage, frames, frameOrigin>>

\* ... or rejects: catch, then finally
CreateRejects(c) ==
  /\ cycles[c].pc = "create"
  /\ Finish(c, cycles[c], Thrown("APIConnectionError"))
  /\ UNCHANGED <<variant, connected, lastPrintedUserMessage>>

\* fault: the request is kept on the instance, so a partial frame carries
\* the response_id of the request that arrived last
StreamEventOfLatestRequest(c, event) ==
  LET cyc == cycles[c]
      merged == IF variant = "tools" THEN messageReducer(cyc.message, event)
                ELSE cyc.message
      seen == [cyc EXCEPT !.consumed = Append(@, event)]
      signals == /\ variant = "tools"
                 /\ Len(event.choices) >= 1
                 /\ event.choices[1].finish_reason = "function_call"
      content == Get(event.choices[1].delta, "content").v
  IN /\ cyc.pc = "stream"
     /\ IF IsThrown(merged)
          THEN Finish(c, seen, merged)
          ELSE IF signals
            THEN /\ cycles' = [cycles EXCEPT ![c] =
                      [seen EXCEPT !.message = merged,
                                   !.funcCall = Get(merged, "function_call"),
                                   !.executeFunction = TRUE]]
                 /\ UNCHANGED <<frames, frameOrigin>>
          ELSE IF EmitsPartial(event)
            THEN /\ cycles' = [cycles EXCEPT ![c] =
                      [seen EXCEPT !.message = merged,
                                   !.completeMessage = @ \o content]]
                 /\ Sent(c, Len(seen.consumed),
                         << <<Frame(cycles[Len(cycles)].request.response_id, content, FALSE),
                              "partial">> >>)
          ELSE /\ cycles' = [cycles EXCEPT ![c] = [seen EXCEPT !.message = merged]]
               /\ UNCHANGED <<frames, frameOrigin>>
     /\ UNCHANGED <<variant, connected, lastPrintedUserMessage>>

\* one iteration of for await (const event of events)
StreamEvent(c, event) ==
  LET cyc == cycles[c]
      merged == IF variant = "tools" THEN messageReducer(cyc.message, event)
                ELSE cyc.message
      seen == [cyc EXCEPT !.consumed = Append(@, event)]
      signals == /\ variant = "tools"
                 /\ Len(event.choices) >= 1
                 /\ event.choices[1].finish_reason = "function_call"
      content == Get(event.choices[1].delta, "content").v
  IN /\ cyc.pc = "stream"
     /\ IF IsThrown(merged)
          THEN Finish(c, seen, merged)
          ELSE IF signals
            THEN /\ cycles' = [cycles EXCEPT ![c] =
                      [seen EXCEPT !.message = merged,
                                   !.funcCall = Get(merged, "function_call"),
                                   !.executeFunction = TRUE]]
                 /\ UNCHANGED <<frames, frameOrigin>>
          ELSE IF EmitsPartial(event)
            THEN /\ cycles' = [cycles EXCEPT ![c] =
                      [seen EXCEPT !.message = merged,
                                   !.completeMessage = @ \o content]]
                 /\ Sent(c, Len(seen.consumed), << <<Frame(cyc.request.response_id, content, FALSE),
                                 "partial">> >>)
          ELSE /\ cycles' = [cycles EXCEPT ![c] = [seen EXCEPT !.message = merged]]
               /\ UNCHANGED <<frames, frameOrigin>>
     /\ UNCHANGED <<variant, connected, lastPrintedUserMessage>>

\* the stream is exhausted: the loop ends, finally runs
StreamEnd(c) ==
  /\ cycles[c].pc = "stream"
  /\ Finish(c, cycles[c], Null)
  /\ UNCHANGED <<variant, connected, lastPrintedUserMessage>>

\* fault: an error of the stream leaves the invocation suspended for ever
StreamErrorHangs(c) ==
  /\ cycles[c].pc = "stream"
  /\ cycles' = [cycles EXCEPT ![c].pc = "hung"]
  /\ UNCHANGED <<variant, connected, lastPrintedUserMessage, frames, frameOrigin>>

\* the stream breaks while it is read: catch, then finally
StreamError(c) ==
  /\ cycles[c].pc = "stream"
  /\ Finish(c, cycles[c], Thrown("StreamError"))
  /\ UNCHANGED <<variant, connected, lastPrintedUserMessage>>

Next ==
  \/ Connect /\ UNCHANGED <<inbound, probe, sessions>>
  \/ \E request \in Requests :
        Len(cycles) < MaxCycles /\ Message(request) /\ UNCHANGED <<inbound, probe, sessions>>
  \/ \E c \in 1..Len(cycles) : CreateResolves(c) /\ UNCHANGED <<inbound, probe, sessions>>
  \/ \E c \in 1..Len(cycles) : CreateRejects(c) /\ UNCHANGED <<inbound, probe, sessions>>
  \/ \E c \in 1..Len(cycles), event \in StreamEvents :
        /\ Len(cycles[c].consumed) < MaxEvents
        /\ StreamEvent(c, event)
        /\ UNCHANGED <<inbound, probe, sessions>>
  \/ \E c \in 1..Len(cycles) : StreamEnd(c) /\ UNCHANGED <<inbound, probe, sessions>>
  \/ \E c \in 1..Len(cycles) : StreamError(c) /\ UNCHANGED <<inbound, probe, sessions>>

Spec == Init /\ [][Next]_vars

----------------------------------------------------------------------------
(* Vocabulary of the properties *)

Cycles == 1..Len(cycles)

\* positions on the connection of the frames cycle c sent
FramesOf(c) == {i \in 1..Len(frames) : frameOrigin[i].cycle = c}

\* the frames cycle c sent from the given places of the code, in order
RECURSIVE PickFrom(_, _, _)
PickFrom(c, phases, i) ==
  IF i > Len(frames) THEN <<>>
  ELSE (IF frameOrigin[i].cycle = c /\ frameOrigin[i].phase \in phases
          THEN <<frames[i]>> ELSE <<>>)
       \o PickFrom(c, phases, i + 1)

Pick(c, phases) == PickFrom(c, phases, 1)

AllPhases == {"partial", "result", "terminal"}
FinalizePhases == {"result", "terminal"}

Ended(cyc) == cyc.pc \in {"returned", "rejected"}
Drafting(cyc) == cyc.request.interaction_type # "update_only"

CarriesContent(event) ==
  /\ Len(event.choices) >= 1
  /\ Get(event.choices[1].delta, "content").t = "string"
  /\ Get(event.choices[1].delta, "content").v # <<>>

SignalsToolCall(event) ==
  /\ Len(event.choices) >= 1
  /\ event.choices[1].finish_reason = "function_call"

\* some consumed event of the tool-calling variant carries
\* finish_reason = function_call
ToolSignalled(cyc) ==
  /\ variant = "tools"
  /\ \E j \in 1..Len(cyc.consumed) : SignalsToolCall(cyc.consumed[j])

\* a tool call was captured: funcCall holds the accumulated function_call
ToolCaptured(cyc) == variant = "tools" /\ cyc.funcCall.t = "object"

ToolFails(cyc) == ToolCaptured(cyc) /\ IsThrown(callFunction(cyc.funcCall))

\* the partial frames the consumed events call for
RECURSIVE ExpectedPartials(_, _)
ExpectedPartials(cyc, events) ==
  IF events = <<>> THEN <<>>
  ELSE (IF CarriesContent(Head(events))
           /\ ~(variant = "tools" /\ SignalsToolCall(Head(events)))
          THEN <<[response_id |-> cyc.request.response_id,
                  content |-> Get(Head(events).choices[1].delta, "content").v,
                  content_complete |-> FALSE,
                  end_call |-> FALSE]>>
          ELSE <<>>)
       \o ExpectedPartials(cyc, Tail(events))

Completes(c) == {i \in FramesOf(c) : frames[i].content_complete}

StreamFailures == {Thrown("APIConnectionError"), Thrown("StreamError")}

Range(seq) == {seq[i] : i \in 1..Len(seq)}

----------------------------------------------------------------------------
(* Properties of one drafting cycle *)

\* C1: a drafting cycle that is not update_only and in which no event
\* signals a tool call has, once the stream is over (normal end, empty
\* stream or error), sent exactly one frame with content_complete = true,
\* and that frame has content "".
C1_OneEmptyTerminalFrame ==
  \A c \in Cycles :
    (Ended(cycles[c]) /\ Drafting(cycles[c]) /\ ~ToolSignalled(cycles[c]))
      => /\ Cardinality(Completes(c)) = 1
         /\ \A i \in Completes(c) : frames[i].content = <<>>

\* a cycle over without any content event, closed by its terminal frame
C1_Witness ==
  \E c \in Cycles :
    /\ Ended(cycles[c]) /\ Drafting(cycles[c]) /\ ~ToolSignalled(cycles[c])
    /\ cycles[c].consumed # <<>>
    /\ \A j \in 1..Len(cycles[c].consumed) : ~CarriesContent(cycles[c].consumed[j])
    /\ Pick(c, AllPhases) = <<[response_id |-> cycles[c].request.response_id,
                               content |-> <<>>, content_complete |-> TRUE,
                               end_call |-> FALSE]>>

\* what C2 asks of a cycle
NoTerminalAtMostOneResult(c) ==
  /\ Completes(c) = {}
  /\ Len(Pick(c, {"result"})) <= 1
  /\ Len(Pick(c, {"result"})) = 1 => ~ToolFails(cycles[c])

C3_PartialFramesFollowEvents ==
  \A c \in Cycles :
    Pick(c, {"partial"}) = ExpectedPartials(cycles[c], cycles[c].consumed)

\* "Hi", " there", then a finish signal without tool call
C3_Witness ==
  \E c \in Cycles :
    /\ Ended(cycles[c])
    /\ cycles[c].consumed = << Chunk([content |-> Str(<<"Hi">>)], "null"),
                               Chunk([content |-> Str(<<" there">>)], "null"),
                               Chunk(NoDelta, "stop") >>
    /\ Pick(c, AllPhases) =
         << [response_id |-> cycles[c].request.response_id, content |-> <<"Hi">>,
             content_complete |-> FALSE, end_call |-> FALSE],
            [response_id |-> cycles[c].request.response_id, content |-> <<" there">>,
             content_complete |-> FALSE, end_call |-> FALSE],
            [response_id |-> cycles[c].request.response_id, content |-> <<>>,
             content_complete |-> TRUE, end_call |-> FALSE] >>

\* finalize frames come after the partial frames, nothing after a frame with
\* content_complete = true
FinalizeLast(c) ==
  /\ \A i, j \in FramesOf(c) :
       (frameOrigin[i].phase = "partial" /\ frameOrigin[j].phase \in FinalizePhases)
         => i < j
  /\ \A i \in Completes(c) : \A j \in FramesOf(c) : j <= i

\* C4 as stated: a cycle that is not update_only sends exactly one
\* finalize-phase frame (tool-result or terminal-empty), after all of its
\* partial frames, and nothing after a frame with content_complete = true.
C4_AsStated ==
  \A c \in Cycles :
    Drafting(cycles[c]) =>
      /\ Ended(cycles[c]) => Len(Pick(c, FinalizePhases)) = 1
      /\ FinalizeLast(c)

\* C4 amended: exactly one finalize-phase frame unless the captured tool call
\* fails to execute, in which case there is none.
C4_OneFinalizeUnlessToolFails ==
  \A c \in Cycles :
    Drafting(cycles[c]) =>
      /\ Ended(cycles[c]) =>
           Len(Pick(c, FinalizePhases)) = (IF ToolFails(cycles[c]) THEN 0 ELSE 1)
      /\ ~Ended(cycles[c]) => Pick(c, FinalizePhases) = <<>>
      /\ FinalizeLast(c)

\* partial frames followed by the one finalize frame
C4_Witness ==
  \E c \in Cycles :
    /\ Ended(cycles[c]) /\ Drafting(cycles[c])
    /\ Len(Pick(c, {"partial"})) >= 2
    /\ Len(Pick(c, FinalizePhases)) = 1
    /\ frameOrigin[Len(frames)].phase \in FinalizePhases

\* C5: an update_only cycle issues no completion request and sends no frame,
\* whatever the transcript.
C5_UpdateOnlyIsSilent ==
  \A c \in Cycles :
    ~Drafting(cycles[c]) =>
      /\ cycles[c].requestMessages = <<>>
      /\ cycles[c].pc = "returned"
      /\ cycles[c].consumed = <<>>
      /\ FramesOf(c) = {}

\* an update_only request whose transcript has a user turn
C5_Witness ==
  \E c \in Cycles :
    /\ ~Drafting(cycles[c])
    /\ cycles[c].request.transcript # <<>>
    /\ cycles[c].userSaid
    /\ cycles[c].pc = "returned" /\ FramesOf(c) = {}

\* the provider stream of the cycle failed to open or broke while read
StreamFailed(cyc) == Ended(cyc) /\ cyc.failure \in StreamFailures

\* C6 as stated: when the provider stream fails, the error is caught and
\* logged and not propagated, and the frames sent are the partial frames of
\* the events that arrived before the failure followed by a finalize frame.
C6_AsStated ==
  \A c \in Cycles :
    StreamFailed(cycles[c]) =>
      /\ cycles[c].logged = <<cycles[c].failure>>
      /\ cycles[c].pc = "returned"
      /\ \E f \in Range(Pick(c, FinalizePhases)) :
           Pick(c, AllPhases)
             = ExpectedPartials(cycles[c], cycles[c].consumed) \o <<f>>

\* C6 amended: the stream error is caught, logged and never the error the
\* invocation ends with; the frames sent are the partial frames of the
\* events that arrived before the failure, followed by one finalize frame,
\* or by none when a tool call captured before the failure fails to execute.
C6_StreamErrorIsContained ==
  \A c \in Cycles :
    StreamFailed(cycles[c]) =>
      /\ cycles[c].logged = <<cycles[c].failure>>
      /\ cycles[c].thrown # cycles[c].failure
      /\ cycles[c].pc = "rejected" <=> ToolFails(cycles[c])
      /\ Pick(c, AllPhases)
           = ExpectedPartials(cycles[c], cycles[c].consumed)
             \o Pick(c, FinalizePhases)
      /\ Len(Pick(c, FinalizePhases)) = (IF ToolFails(cycles[c]) THEN 0 ELSE 1)

\* a stream that broke after a content event: the partial frame, then the
\* terminal frame
C6_Witness ==
  \E c \in Cycles :
    /\ StreamFailed(cycles[c])
    /\ cycles[c].failure = Thrown("StreamError")
    /\ Len(Pick(c, {"partial"})) >= 1
    /\ Len(Pick(c, {"terminal"})) = 1
    /\ cycles[c].pc = "returned"

\* the captured tool call fails on its argument string or on its name
ToolFailsOnInput(cyc) ==
  /\ ToolCaptured(cyc)
  /\ callFunction(cyc.funcCall) \in {Thrown("SyntaxError"), Thrown("No function found")}

\* C7: when the execution of a captured tool call fails because the argument
\* string does not parse or the name has no handler, the failure is logged,
\* no result frame and no error frame is sent, and the cycle completes
\* normally.
C7_ToolFailureIsSoft ==
  \A c \in Cycles :
    (Ended(cycles[c]) /\ ToolFailsOnInput(cycles[c])) =>
      /\ callFunction(cycles[c].funcCall) \in Range(cycles[c].logged)
      /\ Pick(c, FinalizePhases) = <<>>
      /\ cycles[c].pc = "returned"
      /\ cycles[c].thrown = Null

\* the captured call is get with an identifier that no record has
GetOfUnknownId(cyc) ==
  /\ ToolCaptured(cyc)
  /\ Get(cyc.funcCall, "name") = Str(<<"get">>)
  /\ LET args == JSONparse(Get(cyc.funcCall, "arguments"))
     IN /\ args.t = "object"
        /\ Get(args, "id").t = "string"
        /\ \A i \in 1..Len(db) : db[i].id # Get(args, "id").v

\* C8: a captured get call whose identifier matches no record fails with a
\* not-found error, and no result frame is sent in that cycle.
C8_GetNotFoundFails ==
  \A c \in Cycles :
    (Ended(cycles[c]) /\ GetOfUnknownId(cycles[c])) =>
      /\ IsThrown(callFunction(cycles[c].funcCall))
      /\ Pick(c, {"result"}) = <<>>

\* C9: once an event has signalled a tool call, no partial frame is sent for
\* any later event of the cycle.
C9_NoPartialAfterSignal ==
  \A i \in 1..Len(frames) :
    (variant = "tools" /\ frameOrigin[i].phase = "partial") =>
      LET cyc == cycles[frameOrigin[i].cycle]
      IN \A j \in 1..(frameOrigin[i].at - 1) : ~SignalsToolCall(cyc.consumed[j])

\* every frame of the cycle but the last has content_complete = false
OnlyLastMayComplete(c) ==
  \A i \in FramesOf(c) :
    (\E j \in FramesOf(c) : i < j) => ~frames[i].content_complete

\* C10 as stated: in every cycle that sends frames, tool-call cycles
\* included, every frame but the last has content_complete = false and the
\* last one has content_complete = true.
C10_AsStated ==
  \A c \in Cycles :
    (Ended(cycles[c]) /\ FramesOf(c) # {}) =>
      /\ OnlyLastMayComplete(c)
      /\ Cardinality(Completes(c)) = 1

\* C10 amended: every frame but the last has content_complete = false; the
\* last one has content_complete = true exactly when no tool call was
\* captured, and a cycle that captured a tool call has no such frame.
C10_LastFrameCompletesUnlessTool ==
  \A c \in Cycles :
    /\ OnlyLastMayComplete(c)
    /\ ~Ended(cycles[c]) => Completes(c) = {}
    /\ (Ended(cycles[c]) /\ FramesOf(c) # {}) =>
         Cardinality(Completes(c)) = (IF ToolCaptured(cycles[c]) THEN 0 ELSE 1)

\* a cycle with two partial frames closed by its terminal frame
C10_Witness ==
  \E c \in Cycles :
    /\ Ended(cycles[c]) /\ ~ToolCaptured(cycles[c])
    /\ Len(Pick(c, {"partial"})) = 2
    /\ Cardinality(FramesOf(c)) = 3
    /\ frames[Len(frames)].content_complete

----------------------------------------------------------------------------
(* Properties of the session and of its frames *)

\* what BeginMessage sends
GreetingFrame ==
  [response_id |-> 0, content |-> beginSentence(variant),
   content_complete |-> TRUE, end_call |-> FALSE]

\* C11: once the session is established, exactly one frame with
\* response_id = 0, the fixed greeting text, content_complete = true and
\* end_call = false has been sent, and it is the first frame on the
\* connection; before that, no frame is sent and no message is processed.
C11_GreetingFirst ==
  /\ ~connected => (frames = <<>> /\ cycles = <<>> /\ inbound = <<>>)
  /\ connected =>
       /\ {i \in 1..Len(frames) : frames[i] = GreetingFrame} = {1}
       /\ {i \in 1..Len(frames) : frameOrigin[i].phase = "begin"} = {1}

\* a session whose first cycle is over: the greeting, then the cycle's frames
C11_Witness ==
  /\ connected
  /\ Len(frames) >= 3
  /\ frames[1] = GreetingFrame
  /\ \E c \in Cycles : Ended(cycles[c]) /\ FramesOf(c) = 2..Len(frames)

\* C12: every frame a drafting cycle sends (partial, tool-result or
\* terminal) carries the response_id of the request that started the cycle,
\* and every frame on the connection, greeting included, has
\* end_call = false.
C12_FramesEchoResponseId ==
  \A i \in 1..Len(frames) :
    /\ frames[i].end_call = FALSE
    /\ frameOrigin[i].cycle \in Cycles =>
         frames[i].response_id = cycles[frameOrigin[i].cycle].request.response_id

\* a cycle started by response_id 2 that sent a partial frame and then a
\* finalize frame
C12_Witness ==
  \E c \in Cycles :
    /\ Ended(cycles[c])
    /\ cycles[c].request.response_id = 2
    /\ Len(Pick(c, {"partial"})) >= 1
    /\ Len(Pick(c, FinalizePhases)) = 1
    /\ \A i \in FramesOf(c) : frames[i].response_id = 2 /\ ~frames[i].end_call

----------------------------------------------------------------------------
(* Properties of the tool branch *)

\* the parsed arguments of the captured tool call
ParsedArguments(cyc) == JSONparse(Get(cyc.funcCall, "arguments"))

\* the captured call is list with arguments {genre: g}, g a string
ListCall(cyc) ==
  /\ ToolCaptured(cyc)
  /\ Get(cyc.funcCall, "name") = Str(<<"list">>)
  /\ ParsedArguments(cyc).t = "object"
  /\ DOMAIN ParsedArguments(cyc).v = {"genre"}
  /\ Get(ParsedArguments(cyc), "genre").t = "string"

\* the rendering [{"name":...,"id":...},...] of the given records
RECURSIVE RenderNamesAndIds(_)
RenderNamesAndIds(items) ==
  IF items = <<>> THEN <<>>
  ELSE <<"{", "name:", "\"">> \o Head(items).name
       \o <<"\"", ",", "id:", "\"">> \o Head(items).id \o <<"\"", "}">>
       \o (IF Len(items) > 1 THEN <<",">> ELSE <<>>)
       \o RenderNamesAndIds(Tail(items))

\* the content of the result frame for list(g)
ListContent(g) ==
  <<"The function call result is: ", "[">>
  \o RenderNamesAndIds(SelectSeq(db, LAMBDA item : item.genre = g))
  \o <<"]">>

\* C13: a cycle whose captured tool call is list with arguments {genre: g}
\* sends exactly one frame with content_complete = false whose content
\* renders exactly the records of genre g (names and ids, in dataset
\* order), that frame is its only finalize frame and no terminal frame
\* follows; for g = "historical" the content contains all three titles.
C13_ListResultFrame ==
  \A c \in Cycles :
    (Ended(cycles[c]) /\ ListCall(cycles[c])) =>
      LET g == Get(ParsedArguments(cycles[c]), "genre").v
          rendering == [response_id |-> cycles[c].request.response_id,
                        content |-> ListContent(g),
                        content_complete |-> FALSE, end_call |-> FALSE]
      IN /\ Cardinality({i \in FramesOf(c) : frames[i] = rendering}) = 1
         /\ Pick(c, FinalizePhases) = <<rendering>>
         /\ Completes(c) = {}
         /\ g = <<"historical">> =>
              \A k \in 1..Len(db) : Includes(rendering.content, db[k].name)

\* list({genre: "historical"}) executed: the frame names the three titles
C13_Witness ==
  \E c \in Cycles :
    /\ Ended(cycles[c]) /\ ListCall(cycles[c])
    /\ Get(ParsedArguments(cycles[c]), "genre") = Str(<<"historical">>)
    /\ Len(Pick(c, {"result"})) = 1
    /\ \A k \in 1..Len(db) : Includes(Pick(c, {"result"})[1].content, db[k].name)
    /\ Completes(c) = {}

----------------------------------------------------------------------------
(* PreparePrompt alone: every transcript of up to MaxTurns turns *)

Turns == {Turn(role, content) : role \in {"agent", "user"},
                                content \in {<<"hello">>, <<"find", "a", "book">>}}

PromptTranscripts == UNION {[1..n -> Turns] : n \in 0..MaxTurns}

PromptRequests ==
  [response_id : {1}, transcript : PromptTranscripts,
   interaction_type : InteractionTypes]

FormatterInit ==
  /\ Listening
  /\ probe \in [fn : {"PreparePrompt"}, request : PromptRequests,
                 done : {FALSE}, out : {<<>>}]

\* this.PreparePrompt(request)
CallPreparePrompt ==
  /\ probe.fn = "PreparePrompt"
  /\ ~probe.done
  /\ probe' = [probe EXCEPT !.done = TRUE,
                            !.out = PreparePrompt(variant, probe.request)]
  /\ UNCHANGED <<variant, connected, lastPrintedUserMessage, cycles, frames,
                 frameOrigin, inbound, sessions>>

FormatterNext == CallPreparePrompt

FormatterSpec == FormatterInit /\ [][FormatterNext]_vars

\* C14: PreparePrompt returns [system message] ++ map(T) ++ [reminder
\* message iff interaction_type = reminder_required]: its length is
\* |T| + 1 (+ 1 when reminder_required), the system message is first, turn i
\* is at position i + 1 with its content unchanged and its role mapped
\* agent -> assistant, user -> user, and the reminder message comes after
\* the whole mapped transcript.
C14_PromptLayout ==
  (probe.fn = "PreparePrompt" /\ probe.done) =>
    LET T == probe.request.transcript
        out == probe.out
        reminder == probe.request.interaction_type = "reminder_required"
    IN /\ Len(out) = Len(T) + 1 + (IF reminder THEN 1 ELSE 0)
       /\ out[1].role = "system"
       /\ \A i \in 1..Len(T) :
            /\ out[i + 1].content = T[i].content
            /\ T[i].role = "agent" => out[i + 1].role = "assistant"
            /\ T[i].role = "user" => out[i + 1].role = "user"
       /\ reminder =>
            /\ out[Len(T) + 2].role = "user"
            /\ out[Len(T) + 2].content =
                 <<"(Now the user has not responded in a while, you would say:)">>

\* user, agent, user turns and a reminder: five messages
C14_Witness ==
  /\ probe.fn = "PreparePrompt" /\ probe.done
  /\ probe.request.interaction_type = "reminder_required"
  /\ Len(probe.request.transcript) = 3
  /\ probe.request.transcript[1].role = "user"
  /\ probe.request.transcript[2].role = "agent"
  /\ probe.request.transcript[3].content = <<"find", "a", "book">>
  /\ Len(probe.out) = 5
  /\ probe.out[3] = [role |-> "assistant", content |-> probe.request.transcript[2].content]
  /\ probe.out[4] = [role |-> "user", content |-> <<"find", "a", "book">>]

----------------------------------------------------------------------------
(* messageReducer alone: up to MaxDeltas events merged into {} *)

\* a chunk whose only choice has the given delta value
ChunkOf(delta) == [choices |-> <<[delta |-> delta, finish_reason |-> "null"]>>]

ReducerEvents ==
  { ChunkOf(Obj([content |-> Str(<<"Hi">>)])),
    ChunkOf(Obj([content |-> Str(<<" there">>)])),
    ChunkOf(Obj([role |-> Str(<<"assistant">>), content |-> Str(<<>>)])),
    ChunkOf(Obj([function_call |-> Obj([name |-> Str(<<"list">>)])])),
    ChunkOf(Obj([function_call |-> Obj([arguments |-> Str(<<"{", "genre">>)])])),
    ChunkOf(Obj([function_call |-> Str(<<"l", "i">>)])),
    ChunkOf(Obj([function_call |-> Arr(<<Str(<<"x">>)>>)])),
    ChunkOf(Obj([function_call |-> Null])),
    ChunkOf(Obj([function_call |-> Num(1)])),
    ChunkOf(Obj([content |-> Obj([text |-> Str(<<"Hi">>)])])),
    ChunkOf(Obj([index |-> Num(0)])),
    ChunkOf(Obj([index |-> Str(<<"0">>)])),
    ChunkOf(Obj([tool_calls |-> Arr(<<>>)])),
    ChunkOf(Obj([tool_calls |-> Obj([id |-> Str(<<"t1">>)])])),
    ChunkOf(EmptyObj),
    ChunkOf(Undefined),
    [choices |-> <<>>] }

ReducerInit ==
  /\ Listening
  /\ variant = "tools"
  /\ probe = [fn |-> "messageReducer", previous |-> EmptyObj, message |-> EmptyObj,
              merged |-> <<>>, error |-> Null]

\* message = messageReducer(message, event)
Merge(event) ==
  LET m == messageReducer(probe.message, event)
  IN /\ probe.fn = "messageReducer"
     /\ probe.error = Null
     /\ probe' = IF IsThrown(m)
                   THEN [probe EXCEPT !.merged = Append(@, event), !.error = m]
                   ELSE [probe EXCEPT !.merged = Append(@, event),
                                      !.previous = probe.message,
                                      !.message = m]
     /\ UNCHANGED <<variant, connected, lastPrintedUserMessage, cycles, frames,
                    frameOrigin, inbound, sessions>>

ReducerNext == \E event \in ReducerEvents : Len(probe.merged) < MaxDeltas /\ Merge(event)

ReducerSpec == ReducerInit /\ [][ReducerNext]_vars

\* the delta of the event has only string-valued top-level fields
StringValued(event) ==
  /\ Len(event.choices) >= 1
  /\ event.choices[1].delta.t = "object"
  /\ \A k \in DOMAIN event.choices[1].delta.v : event.choices[1].delta.v[k].t = "string"

\* the fields the events deliver
Delivered(events) ==
  UNION {DOMAIN events[i].choices[1].delta.v : i \in 1..Len(events)}

\* the fragments the events deliver for a field, concatenated in arrival order
RECURSIVE Fragments(_, _)
Fragments(field, events) ==
  IF events = <<>> THEN <<>>
  ELSE (IF field \in DOMAIN Head(events).choices[1].delta.v
          THEN Head(events).choices[1].delta.v[field].v ELSE <<>>)
       \o Fragments(field, Tail(events))

\* C15: when every merged delta has only string-valued top-level fields,
\* the accumulated message has exactly the delivered fields and each one is
\* the string that concatenates, in arrival order, the fragments delivered
\* for it; no merge fails.
C15_StringFieldsConcatenate ==
  (probe.fn = "messageReducer"
     /\ \A i \in 1..Len(probe.merged) : StringValued(probe.merged[i])) =>
    /\ probe.error = Null
    /\ DOMAIN probe.message.v = Delivered(probe.merged)
    /\ \A f \in Delivered(probe.merged) :
         probe.message.v[f] = Str(Fragments(f, probe.merged))

\* role and "", then "Hi", then " there": content is "Hi there"
C15_Witness ==
  /\ probe.fn = "messageReducer"
  /\ probe.merged = << ChunkOf(Obj([role |-> Str(<<"assistant">>), content |-> Str(<<>>)])),
                       ChunkOf(Obj([content |-> Str(<<"Hi">>)])),
                       ChunkOf(Obj([content |-> Str(<<" there">>)])) >>
  /\ probe.message = Obj([role |-> Str(<<"assistant">>),
                          content |-> Str(<<"Hi", " there">>)])

\* the types of the accumulated value and of the incoming value mismatch
Mismatch(old, new) ==
  \/ old.t = "object" /\ new.t # "object"
  \/ old.t = "string" /\ new.t # "string"
  \/ old.t \in {"number", "array"}

\* the accumulated message the last merge started from
Before == IF probe.error = Null THEN probe.previous ELSE probe.message

\* C16: merging a delta whose value for a field mismatches the type of the
\* value accumulated for that field leaves the field as it was: the merge
\* succeeds and the accumulated value of the field is unchanged.
C16_MismatchIsNoOp ==
  (probe.fn = "messageReducer" /\ probe.merged # <<>>) =>
    LET event == probe.merged[Len(probe.merged)]
    IN (Len(event.choices) >= 1 /\ event.choices[1].delta.t = "object") =>
         \A key \in DOMAIN event.choices[1].delta.v \cap DOMAIN Before.v :
           Mismatch(Before.v[key], event.choices[1].delta.v[key]) =>
             /\ probe.error = Null
             /\ probe.message.v[key] = Before.v[key]

\* C17: messageReducer has no failure condition: whatever the accumulated
\* message and the event, the merge returns an accumulated message.
C17_ReducerNeverFails ==
  probe.fn = "messageReducer" => probe.error = Null

----------------------------------------------------------------------------
(* callFunction alone: every name with every argument string *)

CallNames == {"list", "search", "get", "nope", "List"}

CallArguments ==
  { <<"{", "genre", ":", "historical", "}">>,
    <<"{", "genre", ":", "fantasy", "}">>,
    <<"{", "genre", ":", "5", "}">>,
    <<"{", "name", ":", "the", "}">>,
    <<"{", "name", ":", "Light", ",", "genre", ":", "fantasy", "}">>,
    <<"{", "id", ":", "a2", "}">>,
    <<"{", "id", ":", "zz", "}">>,
    <<"{", "}">>,
    <<"[", "a1", "]">>,
    <<"null">>,
    <<"5">>,
    <<"a1">>,
    <<>>,
    <<"{", "genre">>,
    <<"{", "genre", ":", "historical", "}", "}">>,
    <<"{", "genre", "historical", "}">> }

FunctionCalls ==
  {Obj([name |-> Str(<<n>>), arguments |-> Str(a)]) :
     n \in CallNames, a \in CallArguments}
  \cup {Obj([name |-> Str(<<n>>)]) : n \in CallNames}

ToolInit ==
  /\ Listening
  /\ variant = "tools"
  /\ probe \in [fn : {"callFunction"}, function_call : FunctionCalls,
                 done : {FALSE}, result : {Null}]

\* await callFunction(function_call)
CallFunction ==
  /\ probe.fn = "callFunction"
  /\ ~probe.done
  /\ probe' = [probe EXCEPT !.done = TRUE,
                            !.result = callFunction(probe.function_call)]
  /\ UNCHANGED <<variant, connected, lastPrintedUserMessage, cycles, frames,
                 frameOrigin, inbound, sessions>>

ToolNext == CallFunction

ToolSpec == ToolInit /\ [][ToolNext]_vars

\* the handler registered under a name, applied to the parsed argument
Handler(name, args) ==
  CASE name = <<"list">> -> list(Get(args, "genre"))
    [] name = <<"search">> -> search(Get(args, "name"))
    [] name = <<"get">> -> get(Get(args, "id"))

Registered == {<<"list">>, <<"search">>, <<"get">>}

\* C18: callFunction fails with an argument-parse error whenever the
\* argument string does not parse as a structured object, fails with an
\* unknown-tool error whenever the name is none of list, search, get, and
\* otherwise returns the result of the handler registered under the name
\* applied to the parsed argument.
C18_CallFunctionContract ==
  (probe.fn = "callFunction" /\ probe.done) =>
    LET args == JSONparse(Get(probe.function_call, "arguments"))
        name == Get(probe.function_call, "name").v
    IN /\ args.t # "object" => probe.result = Thrown("SyntaxError")
       /\ (args.t = "object" /\ name \notin Registered) =>
            probe.result = Thrown("No function found")
       /\ (args.t = "object" /\ name \in Registered) =>
            probe.result = Handler(name, args)

----------------------------------------------------------------------------
(* The server: inbound messages as they arrive on the connection *)

ServerRequests ==
  [response_id : 1..MaxResponseId,
   transcript : {<<Turn("user", <<"find me a historical book">>)>>},
   interaction_type : InteractionTypes]

\* the JSON text of a turn and of a request, as the remote peer writes it
RECURSIVE WireTurns(_)
WireTurns(transcript) ==
  IF transcript = <<>> THEN <<>>
  ELSE <<"{", "role", ":", Head(transcript).role, ",",
         "content", ":", Head(transcript).content[1], "}">>
       \o (IF Len(transcript) > 1 THEN <<",">> ELSE <<>>)
       \o WireTurns(Tail(transcript))

WireText(request) ==
  <<"{", "response_id", ":", ToString(request.response_id), ",",
    "transcript", ":", "[">> \o WireTurns(request.transcript)
  \o <<"]", ",", "interaction_type", ":", request.interaction_type, "}">>

RequestTexts == {WireText(request) : request \in ServerRequests}

\* payloads that are not JSON
MalformedTexts ==
  { <<>>,
    <<"{", "response_id", ":", "1">>,
    <<"hello", "world">>,
    <<"{", "response_id", ":", "1", ",", "}">> }

InboundMessages == [isBinary : BOOLEAN, data : RequestTexts \cup MalformedTexts]

\* const request: RetellRequest = <parsed value>: the annotation checks
\* nothing at run time.  A missing response_id is written 0 and a missing
\* interaction_type "undefined"; neither equals a value the code compares with.
AsRequest(x) ==
  [response_id |-> IF Get(x, "response_id").t = "number"
                     THEN Get(x, "response_id").v ELSE 0,
   transcript |-> IF Get(x, "transcript").t = "array"
                    THEN [i \in 1..Len(x.v.transcript.v) |->
                            [role |-> x.v.transcript.v[i].v.role.v[1],
                             content |-> x.v.transcript.v[i].v.content.v]]
                    ELSE <<>>,
   interaction_type |-> IF Get(x, "interaction_type").t = "string"
                          THEN Get(x, "interaction_type").v[1] ELSE "undefined"]

\* request.transcript.filter(...) throws a TypeError: request is null or
\* has no transcript, or the transcript has no filter method
TranscriptThrows(x) == Get(x, "transcript").t # "array"

\* DraftResponse rejects at its first statement
RejectedAtStart(x) ==
  [request |-> AsRequest(x),
   pc |-> "rejected",
   userSaid |-> FALSE,
   requestMessages |-> <<>>,
   message |-> EmptyObj,
   funcCall |-> Null,
   executeFunction |-> FALSE,
   completeMessage |-> <<>>,
   consumed |-> <<>>,
   failure |-> Null,
   logged |-> <<>>,
   thrown |-> Thrown("TypeError")]

NotClosed == [code |-> 0, reason |-> ""]

\* history: a handled message, the ws.close it led to and the cycle it started
Handled(msg, closed, cycle) == [msg |-> msg, closed |-> closed, cycle |-> cycle]

\* fault: the isBinary test is missing
ReceiveBinaryAsText(msg) ==
  LET parsed == JSONparse(Str(msg.data))
  IN /\ connected
     /\ IF IsThrown(parsed)
          THEN /\ inbound' = Append(inbound,
                     Handled(msg, [code |-> 1002,
                                   reason |-> "Cannot parse incoming message."], 0))
               /\ UNCHANGED <<variant, connected, lastPrintedUserMessage, cycles,
                              frames, frameOrigin>>
          ELSE /\ Message(AsRequest(parsed))
               /\ inbound' = Append(inbound, Handled(msg, NotClosed, Len(cycles) + 1))

\* ws.on("message", (data, isBinary) => ...)
Receive(msg) ==
  LET parsed == JSONparse(Str(msg.data))
  IN /\ connected
     /\ IF msg.isBinary
          THEN /\ inbound' = Append(inbound,
                     Handled(msg, [code |-> 1002,
                                   reason |-> "Cannot find corresponding Retell LLM."], 0))
               /\ UNCHANGED <<variant, connected, lastPrintedUserMessage, cycles,
                              frames, frameOrigin>>
          ELSE IF IsThrown(parsed)
          THEN /\ inbound' = Append(inbound,
                     Handled(msg, [code |-> 1002,
                                   reason |-> "Cannot parse incoming message."], 0))
               /\ UNCHANGED <<variant, connected, lastPrintedUserMessage, cycles,
                              frames, frameOrigin>>
          ELSE IF TranscriptThrows(parsed)
          THEN /\ cycles' = Append(cycles, RejectedAtStart(parsed))
               /\ inbound' = Append(inbound, Handled(msg, NotClosed, Len(cycles) + 1))
               /\ UNCHANGED <<variant, connected, lastPrintedUserMessage,
                              frames, frameOrigin>>
          ELSE /\ Message(AsRequest(parsed))
               /\ inbound' = Append(inbound, Handled(msg, NotClosed, Len(cycles) + 1))

ServerEvents ==
  { Chunk([content |-> Str(<<"Hi">>)], "null"),
    Chunk([content |-> Str(<<" there">>)], "null") }

ServerNext ==
  \/ Connect /\ UNCHANGED <<inbound, probe, sessions>>
  \/ \E msg \in InboundMessages :
        Len(inbound) < MaxInbound /\ Receive(msg) /\ UNCHANGED <<probe, sessions>>
  \/ \E c \in 1..Len(cycles) : CreateResolves(c) /\ UNCHANGED <<inbound, probe, sessions>>
  \/ \E c \in 1..Len(cycles) : CreateRejects(c) /\ UNCHANGED <<inbound, probe, sessions>>
  \/ \E c \in 1..Len(cycles), event \in ServerEvents :
        /\ Len(cycles[c].consumed) < MaxServerEvents
        /\ StreamEvent(c, event)
        /\ UNCHANGED <<inbound, probe, sessions>>
  \/ \E c \in 1..Len(cycles) : StreamEnd(c) /\ UNCHANGED <<inbound, probe, sessions>>
  \/ \E c \in 1..Len(cycles) : StreamError(c) /\ UNCHANGED <<inbound, probe, sessions>>

ServerSpec == Init /\ [][ServerNext]_vars

\* the cycles that have started and not ended
InProgress == {c \in Cycles : ~Ended(cycles[c])}

\* C19: on one connection at most one drafting cycle is in progress at any
\* time: a request that arrives while an earlier cycle is still streaming
\* does not run concurrently with it.
C19_OneCycleAtATime == Cardinality(InProgress) <= 1

\* the message is binary or its text is not JSON
Rejectable(msg) == msg.isBinary \/ msg.data \in MalformedTexts

\* C20: a message that is binary or whose text is not valid JSON never
\* reaches DraftResponse: the handler closes the connection with code 1002
\* and starts no cycle for it; every cycle was started by a text message
\* that holds the JSON text of its request.
C20_MalformedNeverDrafted ==
  /\ \A i \in 1..Len(inbound) :
       Rejectable(inbound[i].msg) =>
         inbound[i].closed.code = 1002 /\ inbound[i].cycle = 0
  /\ \A c \in Cycles :
       \E i \in 1..Len(inbound) :
         /\ inbound[i].cycle = c
         /\ ~Rejectable(inbound[i].msg)
         /\ inbound[i].msg.data = WireText(cycles[c].request)
  /\ Len(cycles)
       = Cardinality({i \in 1..Len(inbound) : ~Rejectable(inbound[i].msg)})

\* a request in a binary message and a truncated text, both answered by
\* close(1002), no cycle started
C20_Witness ==
  /\ Len(inbound) = 2
  /\ inbound[1].msg.isBinary /\ inbound[1].msg.data \in RequestTexts
  /\ inbound[1].closed = [code |-> 1002,
                          reason |-> "Cannot find corresponding Retell LLM."]
  /\ ~inbound[2].msg.isBinary
  /\ inbound[2].msg.data = <<"{", "response_id", ":", "1">>
  /\ inbound[2].closed = [code |-> 1002, reason |-> "Cannot parse incoming message."]
  /\ cycles = <<>>

----------------------------------------------------------------------------
(* Termination of a cycle, the provider stream being finite *)

\* the completion request of cycle c is answered
Settles(c) ==
  /\ c \in 1..Len(cycles)
  /\ CreateResolves(c) \/ CreateRejects(c)
  /\ UNCHANGED <<inbound, probe, sessions>>

\* the stream of cycle c is over: exhausted or broken
StreamOver(c) ==
  /\ c \in 1..Len(cycles)
  /\ StreamEnd(c) \/ StreamError(c)
  /\ UNCHANGED <<inbound, probe, sessions>>

LiveRequests ==
  [response_id : {1},
   transcript : {<<Turn("user", <<"find me a historical book">>)>>},
   interaction_type : InteractionTypes]

LiveEvents ==
  { [choices |-> <<>>],
    Chunk([content |-> Str(<<"Hi">>)], "null"),
    Chunk(NoDelta, "function_call"),
    Chunk([function_call |-> Obj([arguments |-> Str(<<"{", "genre", ":", "historical", "}">>)])],
          "null") }
  \cup { Chunk([content |-> Null,
                function_call |-> Obj([name |-> Str(<<n>>), arguments |-> Str(<<>>)])],
               "null") : n \in {"list", "nope"} }

LiveNext ==
  \/ Connect /\ UNCHANGED <<inbound, probe, sessions>>
  \/ \E request \in LiveRequests :
        /\ Len(cycles) < MaxCycles
        /\ Message(request)
        /\ UNCHANGED <<inbound, probe, sessions>>
  \/ \E c \in 1..Len(cycles) : Settles(c)
  \/ \E c \in 1..Len(cycles), event \in LiveEvents :
        /\ Len(cycles[c].consumed) < MaxEvents
        /\ StreamEvent(c, event)
        /\ UNCHANGED <<inbound, probe, sessions>>
  \/ \E c \in 1..Len(cycles) : StreamOver(c)

\* the provider answers every request and every stream is finite
LiveSpec ==
  /\ Init
  /\ [][LiveNext]_vars
  /\ \A c \in 1..MaxCycles : WF_vars(Settles(c)) /\ WF_vars(StreamOver(c))

\* cycle c has started and is not update_only
Started(c) == c \in Cycles /\ Drafting(cycles[c])

\* cycle c is over
Over(c) == c \in Cycles /\ Ended(cycles[c])

\* C21 as stated: every cycle that is not update_only eventually reaches
\* its finalization and ends, and a cycle whose provider stream failed is
\* never left without its terminal frame (content_complete = true).
C21_AsStated ==
  /\ \A c \in 1..MaxCycles : Started(c) ~> Over(c)
  /\ [](\A c \in Cycles :
          StreamFailed(cycles[c]) => Len(Pick(c, {"terminal"})) = 1)

\* C21 amended: every cycle that is not update_only eventually ends, by
\* return or, when its captured tool call fails, by rejection; a cycle
\* whose provider stream failed has its terminal frame exactly when no tool
\* call was captured before the failure, and otherwise the result frame of
\* the tool call if that executed.
C21_CyclesEnd ==
  /\ \A c \in 1..MaxCycles : Started(c) ~> Over(c)
  /\ [](\A c \in Cycles :
          StreamFailed(cycles[c]) =>
            /\ Len(Pick(c, {"terminal"})) = (IF ToolCaptured(cycles[c]) THEN 0 ELSE 1)
            /\ Len(Pick(c, {"result"}))
                 = (IF ToolCaptured(cycles[c]) /\ ~ToolFails(cycles[c]) THEN 1 ELSE 0)
            /\ cycles[c].pc = (IF ToolFails(cycles[c]) THEN "rejected" ELSE "returned"))

\* a cycle whose completion request was rejected, over with its terminal
\* frame
C21_Witness ==
  \E c \in Cycles :
    /\ Drafting(cycles[c]) /\ Ended(cycles[c])
    /\ cycles[c].failure = Thrown("APIConnectionError")
    /\ cycles[c].consumed = <<>>
    /\ Len(Pick(c, {"terminal"})) = 1
    /\ frames[Len(frames)].content_complete

----------------------------------------------------------------------------
(* The last printed user message over the requests of one session *)

MaxRequests == 3

Utterances ==
  { <<Turn("agent", <<"Hello">>)>>,
    <<Turn("user", <<>>)>>,
    <<Turn("user", <<"Hi">>)>>,
    <<Turn("user", <<"Hi">>), Turn("agent", <<"Hello">>), Turn("user", <<"Bye">>)>> }

UtteranceRequests ==
  [response_id : {1},
   transcript : Utterances,
   interaction_type : {"update_only", "normal"}]

UtteranceNext ==
  \/ Connect /\ UNCHANGED <<inbound, probe, sessions>>
  \/ \E request \in UtteranceRequests :
        /\ Len(cycles) < MaxRequests
        /\ Message(request)
        /\ UNCHANGED <<inbound, probe, sessions>>
  \/ \E c \in 1..Len(cycles) : Settles(c)
  \/ \E c \in 1..Len(cycles) : StreamOver(c)

UtteranceSpec == Init /\ [][UtteranceNext]_vars

\* the positions of the user turns of a transcript
UserTurns(transcript) == {i \in 1..Len(transcript) : transcript[i].role = "user"}

\* the text of the latest user turn
LatestUserText(transcript) ==
  LET i == CHOOSE i \in UserTurns(transcript) :
             \A j \in UserTurns(transcript) : j <= i
  IN Str(transcript[i].content)

\* the value the session holds once its first k cycles have started
RECURSIVE Held(_)
Held(k) ==
  IF k = 0 THEN Null
  ELSE LET transcript == cycles[k].request.transcript
       IN IF UserTurns(transcript) # {} THEN LatestUserText(transcript)
          ELSE Held(k - 1)

\* C22: once a cycle of any interaction kind has started, the session's
\* lastPrintedUserMessage is the text of the latest user turn of that
\* request's transcript if it has one, and is unchanged otherwise; "User said"
\* is printed in a cycle exactly when that text differs from the value held
\* before the cycle.
C22_LastPrintedUserMessage ==
  /\ lastPrintedUserMessage = Held(Len(cycles))
  /\ \A k \in Cycles :
       cycles[k].userSaid <=>
         /\ UserTurns(cycles[k].request.transcript) # {}
         /\ LatestUserText(cycles[k].request.transcript) # Held(k - 1)

\* an empty utterance printed once over two requests, one of them
\* update_only, then a transcript without user turn that changes nothing
C22_Witness ==
  /\ Len(cycles) = 3
  /\ cycles[1].request.transcript = <<Turn("user", <<>>)>>
  /\ cycles[1].request.interaction_type = "update_only"
  /\ cycles[2].request.transcript = <<Turn("user", <<>>)>>
  /\ cycles[2].request.interaction_type = "normal"
  /\ cycles[3].request.transcript = <<Turn("agent", <<"Hello">>)>>
  /\ cycles[1].userSaid /\ ~cycles[2].userSaid /\ ~cycles[3].userSaid
  /\ lastPrintedUserMessage = Str(<<>>)

----------------------------------------------------------------------------
(* Several connections, each with the DemoLlmClient its handler created *)

MaxConnections == 2
MaxCalls == 2

\* sessions.clients: the DemoLlmClient instances; sessions.conns: the accepted
\* connections, each with the instance its handler holds and what was sent on
\* it; sessions.calls: the invocations of DraftResponse, each with its ws
\* argument and, as history, the connection whose message started it
SessionRequests ==
  [response_id : {1},
   transcript : { <<Turn("agent", <<"Hello">>)>>,
                  <<Turn("user", <<"Hi">>)>>,
                  <<Turn("user", <<"Bye">>)>> },
   interaction_type : {"update_only", "normal"}]

\* fault: the instance is created once for the server, not per connection
AcceptSharedClient ==
  /\ Len(sessions.conns) < MaxConnections
  /\ sessions' =
       [sessions EXCEPT
          !.clients = IF @ = <<>> THEN <<[lastPrintedUserMessage |-> Null]>> ELSE @,
          !.conns = Append(@,
             [llmClient |-> 1,
              sent |-> <<[frame |-> Frame(0, beginSentence(variant), TRUE),
                          call |-> 0]>>])]
  /\ UNCHANGED <<variant, connected, lastPrintedUserMessage, cycles, frames,
                 frameOrigin, inbound, probe>>

\* app.ws("/llm-websocket/:call_id", ...): new DemoLlmClient(), BeginMessage(ws)
Accept ==
  /\ Len(sessions.conns) < MaxConnections
  /\ sessions' =
       [sessions EXCEPT
          !.clients = Append(@, [lastPrintedUserMessage |-> Null]),
          !.conns = Append(@,
             [llmClient |-> Len(sessions.clients) + 1,
              sent |-> <<[frame |-> Frame(0, beginSentence(variant), TRUE),
                          call |-> 0]>>])]
  /\ UNCHANGED <<variant, connected, lastPrintedUserMessage, cycles, frames,
                 frameOrigin, inbound, probe>>

\* ws.send by invocation i of the frames in `out` on its ws argument
SentOn(conns, ws, i, out) ==
  [conns EXCEPT ![ws].sent =
     @ \o [j \in 1..Len(out) |-> [frame |-> out[j][1], call |-> i]]]

\* ws.on("message") of connection s with a text that parses to `request`:
\* llmClient.DraftResponse(request, ws) up to its first await
Deliver(s, request) ==
  LET k == sessions.conns[s].llmClient
      last == LastUserMessage(request.transcript)
      says == UserSaid(last, sessions.clients[k].lastPrintedUserMessage)
      skip == UpdateOnly(request)
  IN /\ sessions' =
          [sessions EXCEPT
             !.clients[k].lastPrintedUserMessage = IF says THEN last ELSE @,
             !.calls = Append(@,
                [from |-> s, ws |-> s, llmClient |-> k,
                 request |-> request,
                 pc |-> IF skip THEN "returned" ELSE "create",
                 userSaid |-> says,
                 message |-> EmptyObj,
                 funcCall |-> Null,
                 completeMessage |-> <<>>,
                 consumed |-> <<>>,
                 failure |-> Null,
                 thrown |-> Null])]
     /\ UNCHANGED <<variant, connected, lastPrintedUserMessage, cycles, frames,
                    frameOrigin, inbound, probe>>

\* the try block of invocation i is over, by the error err if any; the
\* finally block sends on the ws of the invocation
Finalize(i, call, err) ==
  LET fin == Finally(variant, call)
  IN sessions' =
       [sessions EXCEPT
          !.calls[i] = [call EXCEPT !.pc = fin.pc, !.thrown = fin.thrown,
                                    !.failure = err],
          !.conns = SentOn(@, call.ws, i, fin.out)]

\* await create(...) of invocation i resolves or rejects
Answer(i) ==
  /\ sessions.calls[i].pc = "create"
  /\ \/ sessions' = [sessions EXCEPT !.calls[i].pc = "stream"]
     \/ Finalize(i, sessions.calls[i], Thrown("APIConnectionError"))
  /\ UNCHANGED <<variant, connected, lastPrintedUserMessage, cycles, frames,
                 frameOrigin, inbound, probe>>

\* one iteration of the loop of invocation i
Chunks(i, event) ==
  LET call == sessions.calls[i]
      merged == IF variant = "tools" THEN messageReducer(call.message, event)
                ELSE call.message
      seen == [call EXCEPT !.consumed = Append(@, event)]
      content == Get(event.choices[1].delta, "content").v
  IN /\ call.pc = "stream"
     /\ IF IsThrown(merged)
          THEN Finalize(i, seen, merged)
          ELSE IF EmitsPartial(event)
            THEN sessions' =
                   [sessions EXCEPT
                      !.calls[i] = [seen EXCEPT !.message = merged,
                                                !.completeMessage = @ \o content],
                      !.conns = SentOn(@, call.ws, i,
                                  << <<Frame(call.request.response_id, content, FALSE),
                                       "partial">> >>)]
          ELSE sessions' = [sessions EXCEPT !.calls[i] = [seen EXCEPT !.message = merged]]
     /\ UNCHANGED <<variant, connected, lastPrintedUserMessage, cycles, frames,
                    frameOrigin, inbound, probe>>

\* the stream of invocation i is exhausted or breaks
Closes(i) ==
  /\ sessions.calls[i].pc = "stream"
  /\ \/ Finalize(i, sessions.calls[i], Null)
     \/ Finalize(i, sessions.calls[i], Thrown("StreamError"))
  /\ UNCHANGED <<variant, connected, lastPrintedUserMessage, cycles, frames,
                 frameOrigin, inbound, probe>>

SessionsNext ==
  \/ Accept
  \/ \E s \in 1..Len(sessions.conns), request \in SessionRequests :
        Len(sessions.calls) < MaxCalls /\ Deliver(s, request)
  \/ \E i \in 1..Len(sessions.calls) : Answer(i)
  \/ \E i \in 1..Len(sessions.calls), event \in ServerEvents :
        Len(sessions.calls[i].consumed) < MaxServerEvents /\ Chunks(i, event)
  \/ \E i \in 1..Len(sessions.calls) : Closes(i)

SessionsSpec == Init /\ [][SessionsNext]_vars

Connections == 1..Len(sessions.conns)
Calls == 1..Len(sessions.calls)

\* the value connection s holds by its own first requests among calls 1..i
RECURSIVE HeldOn(_, _)
HeldOn(s, i) ==
  IF i = 0 THEN Null
  ELSE LET call == sessions.calls[i]
       IN IF call.from = s /\ UserTurns(call.request.transcript) # {}
            THEN LatestUserText(call.request.transcript)
            ELSE HeldOn(s, i - 1)

\* C23: session state is never shared: the lastPrintedUserMessage of a
\* connection is determined by the requests delivered on that connection
\* alone, whatever is drafted on the other connection, and every frame of a
\* cycle is sent on the connection that delivered its request.
C23_SessionsIsolated ==
  /\ \A s \in Connections :
       sessions.clients[sessions.conns[s].llmClient].lastPrintedUserMessage
         = HeldOn(s, Len(sessions.calls))
  /\ \A s \in Connections :
       \A j \in 1..Len(sessions.conns[s].sent) :
         LET e == sessions.conns[s].sent[j]
         IN e.call # 0 =>
              /\ sessions.calls[e.call].from = s
              /\ e.frame.response_id = sessions.calls[e.call].request.response_id
  /\ \A i \in Calls :
       sessions.calls[i].pc = "returned" /\ Drafting(sessions.calls[i]) =>
         \E j \in 1..Len(sessions.conns[sessions.calls[i].from].sent) :
           sessions.conns[sessions.calls[i].from].sent[j].call = i

\* two connections with interleaved cycles: the second connection drafts a
\* reply to "Bye" while the first one is streaming its reply to "Hi"
C23_Witness ==
  /\ Len(sessions.conns) = 2 /\ Len(sessions.calls) = 2
  /\ sessions.calls[1].from = 1 /\ sessions.calls[2].from = 2
  /\ sessions.calls[1].request.transcript = <<Turn("user", <<"Hi">>)>>
  /\ sessions.calls[2].request.transcript = <<Turn("user", <<"Bye">>)>>
  /\ sessions.calls[1].pc = "stream" /\ Len(sessions.calls[1].consumed) = 1
  /\ sessions.calls[2].pc = "returned" /\ Drafting(sessions.calls[2])
  /\ sessions.clients[sessions.conns[1].llmClient].lastPrintedUserMessage = Str(<<"Hi">>)
  /\ sessions.clients[sessions.conns[2].llmClient].lastPrintedUserMessage = Str(<<"Bye">>)
  /\ Len(sessions.conns[1].sent) = 2 /\ Len(sessions.conns[2].sent) >= 2

----------------------------------------------------------------------------
(* The handlers as operations on the array behind `db` *)

MaxLookups == 2

\* db.filter(...).map(...): filter and map build new arrays
listOn(data, genre) ==
  LET keep(item) == genre.t = "string" /\ item.genre = genre.v
  IN [result |-> Arr(MapNameAndId(SelectSeq(data, keep))), data |-> data]

searchOn(data, name) ==
  LET keep(item) == name.t = "string" /\ Includes(item.name, name.v)
  IN [result |-> Arr(MapNameAndId(SelectSeq(data, keep))), data |-> data]

\* fault: the record found is taken out of the array (splice)
getOnTakes(data, id) ==
  LET hits == {i \in 1..Len(data) : id.t = "string" /\ data[i].id = id.v}
      first == CHOOSE i \in hits : \A j \in hits : i <= j
  IN IF hits = {} THEN [result |-> Undefined, data |-> data]
     ELSE [result |-> BookObj(data[first]),
           data |-> [i \in 1..(Len(data) - 1) |->
                       IF i < first THEN data[i] ELSE data[i + 1]]]

\* db.find(...): the record itself is returned, the array is only read
getOn(data, id) ==
  LET hits == {i \in 1..Len(data) : id.t = "string" /\ data[i].id = id.v}
  IN [result |-> IF hits = {} THEN Undefined
                 ELSE BookObj(data[CHOOSE i \in hits : \A j \in hits : i <= j]),
      data |-> data]

callFunctionOn(data, function_call) ==
  LET args == JSONparse(Get(function_call, "arguments"))
      name == Get(function_call, "name")
      arg(key) == Index(args, key)
      throws(err) == [result |-> err, data |-> data]
  IN IF IsThrown(args) THEN throws(args)
     ELSE CASE name = Str(<<"list">>) ->
                 IF IsThrown(arg("genre")) THEN throws(arg("genre"))
                 ELSE listOn(data, arg("genre"))
            [] name = Str(<<"search">>) ->
                 IF IsThrown(arg("name")) THEN throws(arg("name"))
                 ELSE searchOn(data, arg("name"))
            [] name = Str(<<"get">>) ->
                 IF IsThrown(arg("id")) THEN throws(arg("id"))
                 ELSE getOn(data, arg("id"))
            [] OTHER -> throws(Thrown("No function found"))

DatasetInit ==
  /\ Listening
  /\ variant = "tools"
  /\ probe = [fn |-> "dataset", data |-> db, calls |-> <<>>]

\* await callFunction(funcCall) in the finally block of a cycle of `session`;
\* the caller only passes the result to JSON.stringify
Lookup(session, function_call) ==
  LET r == callFunctionOn(probe.data, function_call)
  IN /\ probe.fn = "dataset"
     /\ probe' = [probe EXCEPT
                    !.data = r.data,
                    !.calls = Append(@, [session |-> session,
                                         function_call |-> function_call,
                                         result |-> r.result])]
     /\ UNCHANGED <<variant, connected, lastPrintedUserMessage, cycles, frames,
                    frameOrigin, inbound, sessions>>

DatasetNext ==
  \E session \in 1..MaxConnections, function_call \in FunctionCalls :
    Len(probe.calls) < MaxLookups /\ Lookup(session, function_call)

DatasetSpec == DatasetInit /\ [][DatasetNext]_vars

\* C24: no tool handler mutates the shared dataset: after any sequence of
\* callFunction invocations (list, search, get, any arguments, succeeding or
\* failing, from any session) the dataset equals its initial value, so every
\* call answers as it would on the initial dataset.
C24_DatasetNeverMutated ==
  /\ probe.data = db
  /\ \A i \in 1..Len(probe.calls) :
       probe.calls[i].result = callFunction(probe.calls[i].function_call)

\* a record fetched by get for one session, then a failing call of another
\* session, the dataset still whole
C24_Witness ==
  /\ Len(probe.calls) = 2
  /\ probe.calls[1].session = 1 /\ probe.calls[2].session = 2
  /\ probe.calls[1].function_call =
       Obj([name |-> Str(<<"get">>), arguments |-> Str(<<"{", "id", ":", "a2", "}">>)])
  /\ probe.calls[1].result = BookObj(db[2])
  /\ IsThrown(probe.calls[2].result)
  /\ Len(probe.data) = 3

----------------------------------------------------------------------------
(* messageReducer over a stream that interleaves a tool call with content *)

MaxFragments == 4

FunctionCallDelta(field, fragment) ==
  ChunkOf(Obj([function_call |-> Obj([k \in {field} |-> Str(fragment)])]))

InterleavedEvents ==
  { ChunkOf(Obj([content |-> Null,
                 function_call |-> Obj([name |-> Str(<<"li">>), arguments |-> Str(<<>>)])])),
    FunctionCallDelta("name", <<"st">>),
    FunctionCallDelta("arguments", <<"{", "genre">>),
    FunctionCallDelta("arguments", <<":", "historical", "}">>),
    ChunkOf(Obj([content |-> Str(<<"Hi">>)])),
    ChunkOf(Obj([content |-> Str(<<" there">>)])) }

InterleavedNext ==
  \E event \in InterleavedEvents : Len(probe.merged) < MaxFragments /\ Merge(event)

InterleavedSpec == ReducerInit /\ [][InterleavedNext]_vars

\* the delta of an event
DeltaOf(event) == event.choices[1].delta.v

\* the content fragments of the events, concatenated in arrival order
RECURSIVE ContentFragments(_)
ContentFragments(events) ==
  IF events = <<>> THEN <<>>
  ELSE (IF "content" \in DOMAIN DeltaOf(Head(events))
             /\ DeltaOf(Head(events)).content.t = "string"
          THEN DeltaOf(Head(events)).content.v ELSE <<>>)
       \o ContentFragments(Tail(events))

\* the fragments of a field of function_call, concatenated in arrival order
RECURSIVE CallFragments(_, _)
CallFragments(field, events) ==
  IF events = <<>> THEN <<>>
  ELSE (IF "function_call" \in DOMAIN DeltaOf(Head(events))
             /\ field \in DOMAIN DeltaOf(Head(events)).function_call.v
          THEN DeltaOf(Head(events)).function_call.v[field].v ELSE <<>>)
       \o CallFragments(field, Tail(events))

DeliversContent(events) ==
  \E i \in 1..Len(events) :
    "content" \in DOMAIN DeltaOf(events[i]) /\ DeltaOf(events[i]).content.t = "string"

DeliversCall(field, events) ==
  \E i \in 1..Len(events) :
    /\ "function_call" \in DOMAIN DeltaOf(events[i])
    /\ field \in DOMAIN DeltaOf(events[i]).function_call.v

\* C25: when deltas with nested function_call.name / function_call.arguments
\* fragments are interleaved with deltas with top-level content fragments,
\* the accumulated name and arguments are each the concatenation of their
\* own fragments in arrival order and the accumulated content is the
\* concatenation of the content fragments, whatever the other deltas carry.
C25_NestedFieldsAccumulate ==
  probe.fn = "messageReducer" =>
    /\ probe.error = Null
    /\ DeliversContent(probe.merged) =>
         Get(probe.message, "content") = Str(ContentFragments(probe.merged))
    /\ \A field \in {"name", "arguments"} :
         DeliversCall(field, probe.merged) =>
           Get(Get(probe.message, "function_call"), field)
             = Str(CallFragments(field, probe.merged))
    /\ \A field \in {"name", "arguments"} :
         ~DeliversCall(field, probe.merged) =>
           Get(Get(probe.message, "function_call"), field) = Undefined

\* name "li", content "Hi", name "st", arguments: the call is list with its
\* arguments, the content is "Hi"
C25_Witness ==
  /\ probe.fn = "messageReducer"
  /\ Len(probe.merged) = 4
  /\ probe.merged[2] = ChunkOf(Obj([content |-> Str(<<"Hi">>)]))
  /\ probe.merged[3] = FunctionCallDelta("name", <<"st">>)
  /\ probe.message =
       Obj([content |-> Str(<<"Hi">>),
            function_call |-> Obj([name |-> Str(<<"li", "st">>),
                                   arguments |-> Str(<<"{", "genre">>)])])

----------------------------------------------------------------------------
(* The branch of the finally block after an error of the stream *)

\* the stream of the cycle broke while it was read
StreamBroke(cyc) == Ended(cyc) /\ cyc.failure = Thrown("StreamError")

C26_AsStated ==
  \A c \in Cycles :
    StreamBroke(cycles[c]) =>
      IF ToolSignalled(cycles[c])
        THEN Len(Pick(c, {"result"})) = 1 /\ Pick(c, {"terminal"}) = <<>>
        ELSE Pick(c, {"result"}) = <<>> /\ Len(Pick(c, {"terminal"})) = 1

\* C26: when the stream raises an error after a tool call was captured,
\* the finally block still takes the tool branch: the captured call is
\* executed, its result frame is sent if the call succeeds (no frame, and a
\* rejected invocation, if it fails) and no terminal frame is sent; when no
\* tool call was captured before the error, the terminal frame with empty
\* content is sent and no result frame.
C26_ErrorKeepsBranch ==
  \A c \in Cycles :
    StreamBroke(cycles[c]) =>
      IF ToolCaptured(cycles[c])
        THEN /\ Pick(c, {"terminal"}) = <<>>
             /\ Pick(c, {"result"})
                  = IF ToolFails(cycles[c]) THEN <<>>
                    ELSE <<Frame(cycles[c].request.response_id,
                                 ResultContent(callFunction(cycles[c].funcCall)),
                                 FALSE)>>
             /\ cycles[c].pc = IF ToolFails(cycles[c]) THEN "rejected" ELSE "returned"
        ELSE /\ Pick(c, {"result"}) = <<>>
             /\ Pick(c, {"terminal"})
                  = <<Frame(cycles[c].request.response_id, <<>>, TRUE)>>
             /\ cycles[c].pc = "returned"

\* the stream breaks right after the events that name the tool, give its
\* arguments and signal the call: the result frame is the last frame
C26_Witness ==
  \E c \in Cycles :
    /\ StreamBroke(cycles[c])
    /\ Len(cycles[c].consumed) = 3
    /\ SignalsToolCall(cycles[c].consumed[3])
    /\ ToolCaptured(cycles[c]) /\ ~ToolFails(cycles[c])
    /\ Len(Pick(c, {"result"})) = 1
    /\ frameOrigin[Len(frames)] = Origin(c, "result", 3)

----------------------------------------------------------------------------
(* Inbound texts that are JSON but not a RetellRequest *)

MaxShapeInbound == 1

WellShapedTexts ==
  { WireText([response_id |-> 1,
              transcript |-> <<Turn("user", <<"Hi">>)>>,
              interaction_type |-> kind]) : kind \in InteractionTypes }

IllShapedTexts ==
  { \* interaction_type outside the three kinds
    <<"{", "response_id", ":", "1", ",", "transcript", ":", "[",
      "{", "role", ":", "user", ",", "content", ":", "Hi", "}", "]", ",",
      "interaction_type", ":", "foo", "}">>,
    \* no interaction_type
    <<"{", "response_id", ":", "1", ",", "transcript", ":", "[",
      "{", "role", ":", "user", ",", "content", ":", "Hi", "}", "]", "}">>,
    \* no transcript
    <<"{", "response_id", ":", "1", ",", "interaction_type", ":", "normal", "}">>,
    \* the transcript is a string, an object
    <<"{", "response_id", ":", "1", ",", "transcript", ":", "Hi", ",",
      "interaction_type", ":", "normal", "}">>,
    <<"{", "response_id", ":", "1", ",", "transcript", ":", "{", "}", ",",
      "interaction_type", ":", "normal", "}">>,
    \* not an object at all
    <<"null">> }

ShapeMessages == [isBinary : BOOLEAN, data : WellShapedTexts \cup IllShapedTexts]

ShapeNext ==
  \/ Connect /\ UNCHANGED <<inbound, probe, sessions>>
  \/ \E msg \in ShapeMessages :
        Len(inbound) < MaxShapeInbound /\ Receive(msg) /\ UNCHANGED <<probe, sessions>>
  \/ \E c \in 1..Len(cycles) : Settles(c)
  \/ \E c \in 1..Len(cycles), event \in ServerEvents :
        /\ Len(cycles[c].consumed) < MaxServerEvents
        /\ StreamEvent(c, event)
        /\ UNCHANGED <<inbound, probe, sessions>>
  \/ \E c \in 1..Len(cycles) : StreamOver(c)

ShapeSpec == Init /\ [][ShapeNext]_vars

\* the cycle failed before it asked for a completion and before any frame
FailedFast(c) ==
  /\ cycles[c].pc = "rejected"
  /\ cycles[c].requestMessages = <<>>
  /\ FramesOf(c) = {}

\* C27: a parsed inbound object that violates the shape contract (no
\* transcript or a transcript that is not a sequence of turns, or an
\* interaction_type outside normal, reminder_required, update_only) makes
\* the cycle fail before any completion request and before any frame.
C27_IllShapedFailsFast ==
  \A i \in 1..Len(inbound) :
    (inbound[i].msg.data \in IllShapedTexts /\ ~inbound[i].msg.isBinary) =>
      inbound[i].cycle # 0 /\ FailedFast(inbound[i].cycle)

----------------------------------------------------------------------------
(* The two variants on a stream without tool call *)

\* the event has a choice, does not signal a tool call, and its delta is
\* empty or has a string content and nothing else
ToolFree(event) ==
  /\ Len(event.choices) >= 1
  /\ event.choices[1].finish_reason # "function_call"
  /\ event.choices[1].delta.t = "object"
  /\ DOMAIN event.choices[1].delta.v \subseteq {"content"}
  /\ \A k \in DOMAIN event.choices[1].delta.v : event.choices[1].delta.v[k].t = "string"

\* the frames a request and tool-free events call for, whatever the variant
RECURSIVE ContentFrames(_, _)
ContentFrames(response_id, events) ==
  IF events = <<>> THEN <<>>
  ELSE (IF Get(Head(events).choices[1].delta, "content") \notin {Undefined, Str(<<>>)}
          THEN <<Frame(response_id, Head(events).choices[1].delta.v.content.v, FALSE)>>
          ELSE <<>>)
       \o ContentFrames(response_id, Tail(events))

\* C28: the plain and the tool-calling variant are equivalent on tool-free
\* input: for a request and a sequence of events none of which signals a
\* tool call and each of which has a choice whose delta is empty or carries
\* only a string content, the frames of the cycle are the same function of
\* the request and the events in both variants, and the cycle ends only
\* with its stream.
C28_VariantsAgreeWithoutTools ==
  \A c \in Cycles :
    (Drafting(cycles[c]) /\ \A j \in 1..Len(cycles[c].consumed) :
                              ToolFree(cycles[c].consumed[j])) =>
      /\ Pick(c, AllPhases)
           = ContentFrames(cycles[c].request.response_id, cycles[c].consumed)
             \o (IF Ended(cycles[c])
                   THEN <<Frame(cycles[c].request.response_id, <<>>, TRUE)>>
                   ELSE <<>>)
      /\ cycles[c].failure \in {Null} \cup StreamFailures
      /\ cycles[c].pc # "rejected"

\* the tool-calling variant after an empty delta and two fragments: the
\* frames the plain variant sends
C28_Witness ==
  \E c \in Cycles :
    /\ variant = "tools"
    /\ Ended(cycles[c])
    /\ cycles[c].consumed = << Chunk(NoDelta, "stop"),
                               Chunk([content |-> Str(<<"Hi">>)], "null"),
                               Chunk([content |-> Str(<<" there">>)], "null") >>
    /\ Len(Pick(c, {"partial"})) = 2
    /\ Len(Pick(c, {"terminal"})) = 1

----------------------------------------------------------------------------
(* An event without choices *)

\* C29: in both variants an event whose choices list is empty sends no
\* frame and does not stop the cycle: the loop goes on with the events that
\* arrive after it.
C29_EmptyChoicesSkipped ==
  \A c \in Cycles :
    \A j \in 1..Len(cycles[c].consumed) :
      cycles[c].consumed[j].choices = <<>> =>
        /\ \A i \in FramesOf(c) : frameOrigin[i].at = j => frameOrigin[i].phase # "partial"
        /\ ~(j = Len(cycles[c].consumed) /\ Ended(cycles[c])
               /\ cycles[c].failure = Thrown("TypeError"))

----------------------------------------------------------------------------
(* The tool call captured at the signal and the deltas merged after it *)

MaxSnapshotEvents == 4

SnapshotEvents ==
  { Chunk([content |-> Null,
           function_call |-> Obj([name |-> Str(<<"list">>), arguments |-> Str(<<>>)])],
          "null"),
    Chunk([function_call |-> Obj([arguments |-> Str(<<"{", "genre", ":", "historical", "}">>)])],
          "null"),
    Chunk([function_call |-> Obj([name |-> Str(<<"er">>)])], "null"),
    Chunk(NoDelta, "function_call"),
    Chunk([content |-> Str(<<"Hi">>)], "null") }

SnapshotNext ==
  \/ Connect /\ UNCHANGED <<inbound, probe, sessions>>
  \/ \E request \in LiveRequests :
        /\ Len(cycles) < MaxCycles
        /\ Message(request)
        /\ UNCHANGED <<inbound, probe, sessions>>
  \/ \E c \in 1..Len(cycles) : Settles(c)
  \/ \E c \in 1..Len(cycles), event \in SnapshotEvents :
        /\ Len(cycles[c].consumed) < MaxSnapshotEvents
        /\ StreamEvent(c, event)
        /\ UNCHANGED <<inbound, probe, sessions>>
  \/ \E c \in 1..Len(cycles) : StreamOver(c)

SnapshotSpec == Init /\ [][SnapshotNext]_vars

\* the message accumulated from the first n events
RECURSIVE Accumulated(_, _)
Accumulated(events, n) ==
  IF n = 0 THEN EmptyObj ELSE messageReducer(Accumulated(events, n - 1), events[n])

\* the positions of the events that signal a tool call
Signals(events) == {j \in 1..Len(events) : SignalsToolCall(events[j])}

\* function_call of the message as it was at the last signal
Snapshot(events) ==
  LET last == CHOOSE j \in Signals(events) : \A i \in Signals(events) : i <= j
  IN Get(Accumulated(events, last), "function_call")

\* C30: the tool call executed by the finally block is the snapshot taken
\* at the signalling event: name and arguments as accumulated up to and
\* including that event, whatever is merged afterwards; of several signals
\* the last one counts; callFunction runs at most once per cycle and only
\* once the loop has ended.
C30_SnapshotIsExecuted ==
  \A c \in Cycles :
    variant = "tools" =>
      LET events == cycles[c].consumed
          call == IF Signals(events) = {} THEN Undefined ELSE Snapshot(events)
      IN /\ Len(Pick(c, {"result"})) <= 1
         /\ ~Ended(cycles[c]) => Pick(c, {"result"}) = <<>>
         /\ (Ended(cycles[c]) /\ call.t = "object") =>
              /\ Pick(c, {"terminal"}) = <<>>
              /\ IF IsThrown(callFunction(call))
                   THEN Pick(c, {"result"}) = <<>> /\ cycles[c].thrown = callFunction(call)
                   ELSE Pick(c, {"result"})
                          = <<Frame(cycles[c].request.response_id,
                                    ResultContent(callFunction(call)), FALSE)>>
         /\ (Ended(cycles[c]) /\ call.t # "object") => Pick(c, {"result"}) = <<>>

\* list and its arguments, the signal, then a late name fragment: the list
\* call is executed although the message now names "lister"
C30_Witness ==
  \E c \in Cycles :
    /\ variant = "tools"
    /\ Ended(cycles[c])
    /\ Len(cycles[c].consumed) = 4
    /\ SignalsToolCall(cycles[c].consumed[3])
    /\ Get(Get(cycles[c].message, "function_call"), "name") = Str(<<"list", "er">>)
    /\ Get(Snapshot(cycles[c].consumed), "name") = Str(<<"list">>)
    /\ Len(Pick(c, {"result"})) = 1

----------------------------------------------------------------------------
(* Two invocations of DraftResponse that overlap on one connection *)

MaxOverlap == 2
MaxOverlapEvents == 2

OverlapRequests ==
  [response_id : 1..MaxResponseId,
   transcript : {<<Turn("user", <<"find me a historical book">>)>>},
   interaction_type : {"normal"}]

OverlapEvents ==
  { Chunk([content |-> Str(<<"Hi">>)], "null"),
    Chunk([content |-> Str(<<" there">>)], "null"),
    Chunk([function_call |->
             Obj([name |-> Str(<<"list">>),
                  arguments |-> Str(<<"{", "genre", ":", "historical", "}">>)])], "null"),
    Chunk(NoDelta, "function_call") }

\* the handler does not await DraftResponse: the next message starts its
\* invocation whatever the state of the earlier ones
OverlapNext ==
  \/ Connect /\ UNCHANGED <<inbound, probe, sessions>>
  \/ \E request \in OverlapRequests :
        /\ Len(cycles) < MaxOverlap
        /\ Message(request)
        /\ UNCHANGED <<inbound, probe, sessions>>
  \/ \E c \in 1..Len(cycles) : Settles(c)
  \/ \E c \in 1..Len(cycles), event \in OverlapEvents :
        /\ Len(cycles[c].consumed) < MaxOverlapEvents
        /\ StreamEvent(c, event)
        /\ UNCHANGED <<inbound, probe, sessions>>
  \/ \E c \in 1..Len(cycles) : StreamOver(c)

OverlapSpec == Init /\ [][OverlapNext]_vars

\* the frame the finally block of a cycle that ran alone sends after the
\* given events
FinalizeAlone(request, events) ==
  LET call == IF variant = "tools" /\ Signals(events) # {} THEN Snapshot(events)
              ELSE Undefined
  IN IF call.t = "object"
       THEN IF IsThrown(callFunction(call)) THEN <<>>
            ELSE <<Frame(request.response_id, ResultContent(callFunction(call)), FALSE)>>
       ELSE <<Frame(request.response_id, <<>>, TRUE)>>

\* the frames a cycle that ran alone sends for its request and its events
FramesAlone(cyc) ==
  ExpectedPartials(cyc, cyc.consumed)
  \o (IF Ended(cyc) THEN FinalizeAlone(cyc.request, cyc.consumed) ELSE <<>>)

\* positions on the connection where a frame follows a frame of another cycle
\* that has frames on both sides of it
Interleaved ==
  \E i, j, k \in 1..Len(frames) :
    /\ i < j /\ j < k
    /\ frameOrigin[i].cycle = 1 /\ frameOrigin[j].cycle = 2 /\ frameOrigin[k].cycle = 1

\* C31: when two drafting cycles overlap on one session their frames may
\* interleave on the connection, but the frames of each cycle, in the order
\* of the connection, are those the cycle sends when it runs alone: each
\* carries the response_id of its own request, the partial frames are in the
\* order of their events, and the finalize frame comes after them.
C31_OverlapKeepsEachCycle ==
  \A c \in Cycles :
    /\ Pick(c, AllPhases) = FramesAlone(cycles[c])
    /\ \A i, j \in FramesOf(c) : i < j => frameOrigin[i].at <= frameOrigin[j].at
    /\ \A i, j \in FramesOf(c) :
         (frameOrigin[i].phase = "partial" /\ frameOrigin[j].phase \in FinalizePhases)
           => i < j

\* two cycles with different response_id, frames of the second between frames
\* of the first, both ended
C31_Witness ==
  /\ Len(cycles) = 2
  /\ cycles[1].request.response_id # cycles[2].request.response_id
  /\ Ended(cycles[1]) /\ Ended(cycles[2])
  /\ Interleaved
  /\ Len(Pick(1, {"partial"})) = 2
  /\ Len(Pick(2, {"partial"})) >= 1

----------------------------------------------------------------------------
(* TwilioClient.ListenTwilioVoiceWebhook *)

MaxWebhooks == 2

\* req.body.AnsweredBy: absent, or one of these strings
AnsweredByValues ==
  {Undefined, Str(<<"machine_start">>), Str(<<"human">>), Str(<<>>)}

WebhookRequests ==
  [agent_id : {"agent1"},
   body : [AnsweredBy : AnsweredByValues, CallSid : {"CA1"}]]

\* what registerCall resolves with: a response with or without callDetail
CallResponses ==
  { Obj([statusCode |-> Num(201), callDetail |-> Obj([callId |-> Str(<<"call1">>)])]),
    Obj([statusCode |-> Num(422)]) }

\* response.toString() of the VoiceResponse with its connect / stream verbs
TwiML(callId) ==
  <<"<Response><Connect><Stream url=\"",
    "wss://api.retellai.com/audio-websocket/", callId,
    "\"/></Connect></Response>">>

WebhookInit ==
  /\ Listening
  /\ probe = [fn |-> "webhook", handlers |-> <<>>]

\* app.post("/twilio-voice-webhook/:agent_id"): the handler up to its first
\* await or its return
Post(req) ==
  LET answeredBy == req.body.AnsweredBy
      machine == Truthy(answeredBy) /\ answeredBy = Str(<<"machine_start">>)
      registers == ~Truthy(answeredBy)
  IN /\ probe.fn = "webhook"
     /\ probe' = [probe EXCEPT !.handlers = Append(@,
          [req |-> req,
           pc |-> IF registers THEN "registerCall" ELSE "returned",
           endCall |-> IF machine THEN <<[sid |-> req.body.CallSid, pc |-> "update"]>>
                       ELSE <<>>,
           registerCall |-> IF registers THEN <<[agentId |-> req.agent_id]>> ELSE <<>>,
           callResponse |-> Null,
           sent |-> <<>>])]
     /\ UNCHANGED <<variant, connected, lastPrintedUserMessage, cycles, frames,
                    frameOrigin, inbound, sessions>>

\* EndCall: twilio.calls(sid).update resolves or rejects, both only logged
EndCallSettles(i) ==
  /\ probe.fn = "webhook"
  /\ probe.handlers[i].endCall # <<>>
  /\ probe.handlers[i].endCall[1].pc = "update"
  /\ \E outcome \in {"logged", "error logged"} :
       probe' = [probe EXCEPT !.handlers[i].endCall[1].pc = outcome]
  /\ UNCHANGED <<variant, connected, lastPrintedUserMessage, cycles, frames,
                 frameOrigin, inbound, sessions>>

\* await this.retellClient.registerCall(...) resolves with callResponse
RegisterResolves(i, callResponse) ==
  /\ probe.fn = "webhook"
  /\ probe.handlers[i].pc = "registerCall"
  /\ probe' = [probe EXCEPT
       !.handlers[i].pc = "returned",
       !.handlers[i].callResponse = callResponse,
       !.handlers[i].sent =
          IF Truthy(Get(callResponse, "callDetail"))
            THEN Append(@, [status |-> 200, type |-> "text/xml",
                            body |-> TwiML(callResponse.v.callDetail.v.callId.v[1])])
            ELSE @]
  /\ UNCHANGED <<variant, connected, lastPrintedUserMessage, cycles, frames,
                 frameOrigin, inbound, sessions>>

\* ... or rejects: catch, res.status(500).send()
RegisterRejects(i) ==
  /\ probe.fn = "webhook"
  /\ probe.handlers[i].pc = "registerCall"
  /\ probe' = [probe EXCEPT
       !.handlers[i].pc = "returned",
       !.handlers[i].callResponse = Thrown("SDKError"),
       !.handlers[i].sent = Append(@, [status |-> 500, type |-> "", body |-> <<>>])]
  /\ UNCHANGED <<variant, connected, lastPrintedUserMessage, cycles, frames,
                 frameOrigin, inbound, sessions>>

WebhookNext ==
  \/ \E req \in WebhookRequests : Len(probe.handlers) < MaxWebhooks /\ Post(req)
  \/ \E i \in 1..Len(probe.handlers) : EndCallSettles(i)
  \/ \E i \in 1..Len(probe.handlers), callResponse \in CallResponses :
       RegisterResolves(i, callResponse)
  \/ \E i \in 1..Len(probe.handlers) : RegisterRejects(i)

WebhookSpec == WebhookInit /\ [][WebhookNext]_vars

\* the registration succeeded: registerCall resolved with the call registered
Registered200(h) == Truthy(Get(h.callResponse, "callDetail"))

\* C32: a webhook request that carries AnsweredBy never registers a call,
\* and EndCall is invoked exactly when AnsweredBy is machine_start; a
\* request without AnsweredBy has, once its handler is over, exactly one
\* HTTP response: the TwiML stream document naming the registered call id
\* when the registration succeeded, status 500 when it failed.
C32_WebhookAnswers ==
  probe.fn = "webhook" =>
    \A i \in 1..Len(probe.handlers) :
      LET h == probe.handlers[i]
      IN IF h.req.body.AnsweredBy # Undefined
           THEN /\ h.registerCall = <<>>
                /\ h.endCall # <<>> <=> h.req.body.AnsweredBy = Str(<<"machine_start">>)
           ELSE h.pc = "returned" =>
                  /\ Len(h.sent) = 1
                  /\ IF Registered200(h)
                       THEN /\ h.sent[1].status = 200
                            /\ h.sent[1].body = TwiML(h.callResponse.v.callDetail.v.callId.v[1])
                       ELSE h.sent[1].status = 500

====
